---- MODULE Spec2Model ----
(***************************************************************************)
(* A model of the two-pass assembler: main.c (driver), macro_processor.c,  *)
(* first_pass.c, symbol_table.c, second_pass.c, output_files.c and         *)
(* convertToBase4.c.                                                       *)
(*                                                                         *)
(* Text is modelled as it is in C: a string is a sequence of one-character *)
(* strings, a "pointer into a string" is the suffix it points at.  A file  *)
(* is a sequence of lines, each line standing for its characters followed  *)
(* by a line feed.                                                          *)
(*                                                                         *)
(* A long C function is written as several operators: each one is a part   *)
(* of the function, and takes as parameters the local variables that the   *)
(* parts before it have set.                                               *)
(***************************************************************************)
EXTENDS Integers, Sequences, FiniteSets, TLC

\* ------------------------------------------------------------------------
\* Program constants (assembler.h)
\* ------------------------------------------------------------------------
MEMORY_START == 100
MAX_LINE_LENGTH == 81
MAX_SYMBOL_LENGTH == 31
BASE4_WORD_LENGTH == 5

\* ------------------------------------------------------------------------
\* Characters and the C library
\* ------------------------------------------------------------------------
NUL == "\\0"

Digits == <<"0", "1", "2", "3", "4", "5", "6", "7", "8", "9">>

isdigit(c) == \E i \in 1..10 : Digits[i] = c

DigitVal(c) == (CHOOSE i \in 1..10 : Digits[i] = c) - 1

isalpha(c) ==
    c \in {"a", "b", "c", "d", "e", "f", "g", "h", "i", "j", "k", "l", "m",
           "n", "o", "p", "q", "r", "s", "t", "u", "v", "w", "x", "y", "z",
           "A", "B", "C", "D", "E", "F", "G", "H", "I", "J", "K", "L", "M",
           "N", "O", "P", "Q", "R", "S", "T", "U", "V", "W", "X", "Y", "Z"}

isalnum(c) == isalpha(c) \/ isdigit(c)

isspace(c) == c \in {" ", "\t", "\n", "\r"}

\* s[i], with the terminating NUL one past the end
At(s, i) == IF i >= 1 /\ i <= Len(s) THEN s[i] ELSE NUL

\* the string a pointer s + k points at
Suffix(s, k) == SubSeq(s, k + 1, Len(s))

\* the first n characters of s, all of s when it is shorter
Prefix(s, n) == SubSeq(s, 1, IF n < Len(s) THEN n ELSE Len(s))

\* number of leading characters of s that satisfy no member of the set cs
\* (strcspn), and the position of the first occurrence of c (strchr; 0: NULL)
RECURSIVE strcspn(_, _)
strcspn(s, cs) ==
    IF s = <<>> \/ Head(s) \in cs THEN 0 ELSE 1 + strcspn(Tail(s), cs)

strchr(s, c) == IF strcspn(s, {c}) = Len(s) THEN 0 ELSE strcspn(s, {c}) + 1

RECURSIVE SpaceRun(_)
SpaceRun(s) == IF s = <<>> \/ ~isspace(Head(s)) THEN 0 ELSE 1 + SpaceRun(Tail(s))

RECURSIVE DigitRun(_)
DigitRun(s) == IF s = <<>> \/ ~isdigit(Head(s)) THEN 0 ELSE 1 + DigitRun(Tail(s))

RECURSIVE NonSpaceRun(_)
NonSpaceRun(s) ==
    IF s = <<>> \/ isspace(Head(s)) THEN 0 ELSE 1 + NonSpaceRun(Tail(s))

skip_whitespace(s) == Suffix(s, SpaceRun(s))

\* 1 when s starts with a sign
SignRun(s) == IF At(s, 1) \in {"+", "-"} THEN 1 ELSE 0

\* value of a run of decimal digits
RECURSIVE DecVal(_, _)
DecVal(s, acc) ==
    IF s = <<>> THEN acc ELSE DecVal(Tail(s), 10 * acc + DigitVal(Head(s)))

\* strtol(s, &end, 10): [val, used]; used = 0 when no digits were found.
\* n is the number of digits
StrtolDigits(t, ws, sg, n) ==
    IF n = 0 THEN [val |-> 0, used |-> 0]
    ELSE [val  |-> IF At(t, 1) = "-" THEN 0 - DecVal(SubSeq(t, sg + 1, sg + n), 0)
                   ELSE DecVal(SubSeq(t, sg + 1, sg + n), 0),
          used |-> ws + sg + n]

\* t is s after its white space, ws the length of that white space, sg 1 for a sign
StrtolSigned(t, ws, sg) == StrtolDigits(t, ws, sg, DigitRun(Suffix(t, sg)))

strtol(s) == StrtolSigned(skip_whitespace(s), SpaceRun(s), SignRun(skip_whitespace(s)))

atoi(s) == strtol(s).val

\* sscanf(s, "%s%n", tok, &n): [ok, tok, n]
ScanWordAt(s, ws, n) == [ok |-> n > 0, tok |-> SubSeq(s, ws + 1, ws + n), n |-> ws + n]

ScanWord(s) == ScanWordAt(s, SpaceRun(s), NonSpaceRun(skip_whitespace(s)))

\* strtok_r(s, ",", &save): [tok, rest] or the token "none" (NULL)
NoTok == <<"none">>

RECURSIVE CommaRun(_)
CommaRun(s) == IF s = <<>> \/ Head(s) # "," THEN 0 ELSE 1 + CommaRun(Tail(s))

StrtokAt(t, n) ==
    IF t = <<>> THEN [tok |-> NoTok, isTok |-> FALSE, rest |-> <<>>]
    ELSE [tok |-> Prefix(t, n), isTok |-> TRUE, rest |-> Suffix(t, n + 1)]

strtok_r(s) == StrtokAt(Suffix(s, CommaRun(s)), strcspn(Suffix(s, CommaRun(s)), {","}))

\* ------------------------------------------------------------------------
\* first_pass.c: lexical helpers
\* ------------------------------------------------------------------------
is_valid_number(s) == s # <<>> /\ strtol(s).used = Len(s)

\* the opcode names, in the order of is_opcode's array and of the legality table
Opcodes ==
    << <<"m", "o", "v">>,
       <<"c", "m", "p">>,
       <<"a", "d", "d">>,
       <<"s", "u", "b">>,
       <<"n", "o", "t">>,
       <<"c", "l", "r">>,
       <<"l", "e", "a">>,
       <<"i", "n", "c">>,
       <<"d", "e", "c">>,
       <<"j", "m", "p">>,
       <<"b", "n", "e">>,
       <<"r", "e", "d">>,
       <<"p", "r", "n">>,
       <<"j", "s", "r">>,
       <<"r", "t", "s">>,
       <<"s", "t", "o", "p">> >>

is_opcode(s) == \E i \in 1..Len(Opcodes) : Opcodes[i] = s

is_register(s) ==
    /\ Len(s) = 2
    /\ s[1] = "r"
    /\ isdigit(s[2])
    /\ atoi(Suffix(s, 1)) \in 0..7

is_valid_label(s) ==
    /\ s # <<>>
    /\ Len(s) < MAX_SYMBOL_LENGTH
    /\ isalpha(s[1])
    /\ \A i \in 2..Len(s) : isalnum(s[i])

\* second_pass.c: the addressing mode digit of an operand
get_addressing_mode_base4(operand_str) ==
    IF operand_str = <<>> THEN "a"
    ELSE IF operand_str[1] = "#" THEN "a"
    ELSE IF is_register(operand_str) THEN "d"
    ELSE IF strchr(operand_str, "[") # 0 THEN "c"
    ELSE "b"

\* sscanf(op, "%[^[][r%d][r%d]", label, &m, &n): how many of the three fields
\* were read (fields), and their values.  The two calls of the code are
\* sscanf(op, "%*[^[][r%d][r%d]", &m, &n), which returns fields - 1 (0 when no
\* field was read), and sscanf(op, "%[^[][r%*d][r%*d]", label), which returns
\* 1 as soon as the label field was read.
ScanMatrixFields(op, ln, d1, d2) ==
    LET a  == Suffix(op, ln)
        b  == Suffix(op, ln + 2 + d1.used)
        f1 == ln > 0
        f2 == f1 /\ At(a, 1) = "[" /\ At(a, 2) = "r" /\ d1.used > 0
        f3 == f2 /\ At(b, 1) = "]" /\ At(b, 2) = "[" /\ At(b, 3) = "r" /\ d2.used > 0
    IN  [fields |-> IF f3 THEN 3 ELSE IF f2 THEN 2 ELSE IF f1 THEN 1 ELSE 0,
         label  |-> Prefix(op, ln),
         m      |-> d1.val,
         n      |-> d2.val]

\* d1 is the first %d, read after the two characters "[r"; the second %d is
\* read after the first one and the three characters "][r"
ScanMatrixSecond(op, ln, d1) ==
    ScanMatrixFields(op, ln, d1, strtol(Suffix(op, ln + 2 + d1.used + 3)))

\* ln is the length of the %[^[] field
ScanMatrixFirst(op, ln) == ScanMatrixSecond(op, ln, strtol(Suffix(op, ln + 2)))

ScanMatrix(op) == ScanMatrixFirst(op, strcspn(op, {"["}))

\* what sscanf returns when the first field is not assigned
UnassignedFirst(fields) == IF fields = 0 THEN 0 ELSE fields - 1

ScanMatrixRegs(op) == UnassignedFirst(ScanMatrix(op).fields)

ScanMatrixLabel(op) == IF ScanMatrix(op).fields = 0 THEN 0 ELSE 1

\* calculate_instruction_length: the number of words, or -1
ExpectedOperands(opcode) ==
    IF opcode \in {Opcodes[15], Opcodes[16]} THEN 0
    ELSE IF opcode \in {Opcodes[5], Opcodes[6], Opcodes[8], Opcodes[9], Opcodes[10],
                        Opcodes[11], Opcodes[14], Opcodes[12], Opcodes[13]} THEN 1
    ELSE IF opcode \in {Opcodes[1], Opcodes[2], Opcodes[3], Opcodes[4], Opcodes[7]} THEN 2
    ELSE -1

\* the extra words of one operand: [bad, words, isReg]
OperandExtraWords(op) ==
    IF op[1] = "#" THEN [bad |-> FALSE, words |-> 1, isReg |-> FALSE]
    ELSE IF strchr(op, "[") # 0 THEN
        IF ScanMatrixRegs(op) = 2 THEN [bad |-> FALSE, words |-> 2, isReg |-> FALSE]
        ELSE [bad |-> TRUE, words |-> 0, isReg |-> FALSE]
    ELSE IF is_register(op) THEN [bad |-> FALSE, words |-> 1, isReg |-> TRUE]
    ELSE [bad |-> FALSE, words |-> 1, isReg |-> FALSE]

\* a variant that forgets that two registers share one word
calculate_instruction_length_unshared(opcode, op1, op2) ==
    IF ExpectedOperands(opcode) # (IF op1 # <<>> THEN 1 ELSE 0) + (IF op2 # <<>> THEN 1 ELSE 0)
    THEN -1
    ELSE IF op1 # <<>> /\ OperandExtraWords(op1).bad THEN -1
    ELSE IF op2 # <<>> /\ OperandExtraWords(op2).bad THEN -1
    ELSE 1 + (IF op1 # <<>> THEN OperandExtraWords(op1).words ELSE 0)
           + (IF op2 # <<>> THEN OperandExtraWords(op2).words ELSE 0)

\* e1 and e2 are the extra words of the two operands
InstructionLength(expected_operands, num_operands_parsed, e1, e2) ==
    IF expected_operands = -1 \/ expected_operands # num_operands_parsed THEN -1
    ELSE IF e1.bad THEN -1
    ELSE IF e2.bad THEN -1
    ELSE IF e1.isReg /\ e2.isReg THEN 1 + 1
    ELSE IF 1 + e1.words + e2.words > 5 THEN -1
    ELSE 1 + e1.words + e2.words

calculate_instruction_length(opcode, op1, op2) ==
    LET num_operands_parsed == (IF op1 # <<>> THEN 1 ELSE 0) + (IF op2 # <<>> THEN 1 ELSE 0)
        none == [bad |-> FALSE, words |-> 0, isReg |-> FALSE]
    IN  InstructionLength(ExpectedOperands(opcode), num_operands_parsed,
            IF num_operands_parsed >= 1 THEN OperandExtraWords(op1) ELSE none,
            IF num_operands_parsed = 2 THEN OperandExtraWords(op2) ELSE none)

\* validate_instruction_operands: the legality table, 'X' for no operand
legal_modes ==
    << << <<"a","b","c","d">>, <<"b","c","d">> >>,
       << <<"a","b","c","d">>, <<"a","b","c","d">> >>,
       << <<"a","b","c","d">>, <<"b","c","d">> >>,
       << <<"a","b","c","d">>, <<"b","c","d">> >>,
       << <<"X">>, <<"b","c","d">> >>,
       << <<"X">>, <<"b","c","d">> >>,
       << <<"b","c">>, <<"b","c","d">> >>,
       << <<"X">>, <<"b","c","d">> >>,
       << <<"X">>, <<"b","c","d">> >>,
       << <<"X">>, <<"b","c">> >>,
       << <<"X">>, <<"b","c">> >>,
       << <<"X">>, <<"b","c","d">> >>,
       << <<"X">>, <<"a","b","c","d">> >>,
       << <<"X">>, <<"b","c">> >>,
       << <<"X">>, <<"X">> >>,
       << <<"X">>, <<"X">> >> >>

OpcodeNum(opcode) ==
    IF is_opcode(opcode) THEN (CHOOSE i \in 1..Len(Opcodes) : Opcodes[i] = opcode) - 1
    ELSE -1

\* src and dest are the addressing modes of the two operands
ValidateModes(opcode_num, src, dest, num_ops) ==
    LET row == legal_modes[opcode_num + 1]
        expected_operands ==
            (IF row[1] # <<"X">> THEN 1 ELSE 0) + (IF row[2] # <<"X">> THEN 1 ELSE 0)
    IN  IF opcode_num = -1 THEN FALSE
        ELSE IF expected_operands # num_ops THEN FALSE
        ELSE IF num_ops = 2 THEN strchr(row[1], src) # 0 /\ strchr(row[2], dest) # 0
        ELSE IF num_ops = 1 THEN strchr(row[2], src) # 0
        ELSE TRUE

\* TRUE when the instruction is legal; the caller sets g_has_error otherwise
validate_instruction_operands(opcode, op1, op2, num_ops) ==
    ValidateModes(OpcodeNum(opcode), get_addressing_mode_base4(op1),
                  get_addressing_mode_base4(op2), num_ops)

\* ------------------------------------------------------------------------
\* symbol_table.c.  The table is the linked list, head first; a symbol is
\* [name, address, type, external_usages], the usage list head first too.
\* ------------------------------------------------------------------------
SYMBOL_CODE == "CODE"
SYMBOL_DATA == "DATA"
SYMBOL_EXTERNAL == "EXTERNAL"
SYMBOL_ENTRY == "ENTRY"

\* index of the first symbol called name, 0 for NULL
findSymbol(head, name) ==
    IF \E i \in 1..Len(head) : head[i].name = name
    THEN CHOOSE i \in 1..Len(head) :
            /\ head[i].name = name
            /\ \A j \in 1..(i - 1) : head[j].name # name
    ELSE 0

\* a variant that accepts an .extern declaration of any existing name
AddToExistingLax(head, err, e, address, type) ==
    IF type = SYMBOL_EXTERNAL THEN [head |-> head, err |-> err]
    ELSE IF type = SYMBOL_ENTRY
         THEN [head |-> [head EXCEPT ![e].type = SYMBOL_ENTRY], err |-> err]
    ELSE IF head[e].type = SYMBOL_ENTRY /\ head[e].address = 0
         THEN [head |-> [head EXCEPT ![e].address = address], err |-> err]
    ELSE [head |-> head, err |-> TRUE]

\* what addSymbol does once the name is found in the table at index e
AddToExisting(head, err, e, address, type) ==
    LET existing == head[e]
        Fail     == [head |-> head, err |-> TRUE]
        Same     == [head |-> head, err |-> err]
    IN  IF type = SYMBOL_EXTERNAL THEN
            IF existing.type \in {SYMBOL_CODE, SYMBOL_DATA} THEN Fail
            ELSE IF existing.type = SYMBOL_ENTRY THEN Fail
            ELSE Same
        ELSE IF type = SYMBOL_ENTRY THEN
            IF existing.type = SYMBOL_EXTERNAL THEN Fail
            ELSE [head |-> [head EXCEPT ![e].type = SYMBOL_ENTRY], err |-> err]
        ELSE
            IF existing.type \in {SYMBOL_CODE, SYMBOL_DATA} THEN Fail
            ELSE IF existing.type = SYMBOL_EXTERNAL THEN Fail
            ELSE IF existing.address = 0
                 THEN [head |-> [head EXCEPT ![e].address = address], err |-> err]
                 ELSE Fail

\* addSymbol(&head, name, address, type, line): the new [head, err]
addSymbol(head, err, name, address, type) ==
    IF is_opcode(name) \/ is_register(name) THEN [head |-> head, err |-> TRUE]
    ELSE IF ~is_valid_label(name) THEN [head |-> head, err |-> TRUE]
    ELSE IF findSymbol(head, name) # 0
         THEN AddToExisting(head, err, findSymbol(head, name), address, type)
    ELSE [head |-> << [name |-> Prefix(name, MAX_SYMBOL_LENGTH - 1),
                       address |-> address,
                       type |-> type,
                       external_usages |-> <<>>] >> \o head,
          err |-> err]

RelocatedSymbol(sym, icf) ==
    IF sym.type = SYMBOL_DATA THEN [sym EXCEPT !.address = sym.address + icf]
    ELSE IF sym.type = SYMBOL_ENTRY /\ sym.address < MEMORY_START
         THEN [sym EXCEPT !.address = sym.address + icf]
    ELSE sym

updateDataSymbolsAddresses(head, icf) ==
    [i \in 1..Len(head) |-> RelocatedSymbol(head[i], icf)]

\* a variant that records the 0-based position of the word
addExternalUsageZeroBased(head, err, e, address) ==
    IF e = 0 \/ head[e].type # SYMBOL_EXTERNAL THEN [head |-> head, err |-> TRUE]
    ELSE [head |-> [head EXCEPT ![e].external_usages = <<address - 1>> \o @], err |-> err]

\* addExternalUsage(sym, address) on the symbol at index e (0: NULL)
addExternalUsage(head, err, e, address) ==
    IF e = 0 \/ head[e].type # SYMBOL_EXTERNAL THEN [head |-> head, err |-> TRUE]
    ELSE [head |-> [head EXCEPT ![e].external_usages = <<address>> \o @], err |-> err]

\* ------------------------------------------------------------------------
\* first_pass.c: the data directives.  The data list is temp_d_head, head
\* first (the newest item); an item is [address, value], address the DC offset.
\* ------------------------------------------------------------------------
\* the printable characters, from code 32 (the space) to code 126 (the grave
\* accent, code 96, is spelled out: the TLA+ lexer does not read it in a string)
AsciiChars ==
    << " ", "!", "\"", "#", "$", "%", "&", "'", "(", ")", "*", "+",
       ",", "-", ".", "/", "0", "1", "2", "3", "4", "5", "6", "7",
       "8", "9", ":", ";", "<", "=", ">", "?", "@", "A", "B", "C",
       "D", "E", "F", "G", "H", "I", "J", "K", "L", "M", "N", "O",
       "P", "Q", "R", "S", "T", "U", "V", "W", "X", "Y", "Z", "[",
       "\\", "]", "^", "_", "grave", "a", "b", "c", "d", "e", "f", "g",
       "h", "i", "j", "k", "l", "m", "n", "o", "p", "q", "r", "s",
       "t", "u", "v", "w", "x", "y", "z", "{", "|", "}", "~" >>

\* (int) c
Ascii(c) == 31 + (CHOOSE i \in 1..Len(AsciiChars) : AsciiChars[i] = c)

Reverse(s) == [i \in 1..Len(s) |-> s[Len(s) + 1 - i]]

\* the list after each of values was given the next DC and put at its front
PushData(head, DC, values) ==
    Reverse([i \in 1..Len(values) |-> [address |-> DC + i - 1, value |-> values[i]]])
        \o head

\* what the three validate_* functions give, [ok, data, DC], once values were
\* stored; a caller sets g_has_error when ok is FALSE, as each of them does
\* before it returns 0
StoreData(ok, values, data, DC) ==
    [ok |-> ok, data |-> PushData(data, DC, values), DC |-> DC + Len(values)]

\* the strtok_r loop of validate_data_parameters; acc is [success, values]
RECURSIVE DataTokens(_, _)
\* one token t of the loop, trimmed its text cut at its first blank or tab
DataToken(t, trimmed, acc) ==
    IF ~t.isTok THEN acc
    ELSE IF trimmed = <<>> THEN DataTokens(t.rest, [acc EXCEPT !.success = FALSE])
    ELSE IF ~is_valid_number(trimmed)
         THEN DataTokens(t.rest, [acc EXCEPT !.success = FALSE])
    ELSE IF atoi(trimmed) < -512 \/ atoi(trimmed) > 511
         THEN DataTokens(t.rest, [acc EXCEPT !.success = FALSE])
    ELSE DataTokens(t.rest, [acc EXCEPT !.values = Append(@, atoi(trimmed))])

DataTokens(rest, acc) ==
    DataToken(strtok_r(rest),
              Prefix(skip_whitespace(strtok_r(rest).tok),
                     strcspn(skip_whitespace(strtok_r(rest).tok), {" ", "\t"})),
              acc)

DataResult(r, data, DC) == StoreData(r.success, r.values, data, DC)

validate_data_parameters(params_str, data, DC) ==
    LET rest0 == skip_whitespace(params_str)
        lead  == At(rest0, 1) = ","
    IN  IF rest0 = <<>> THEN [ok |-> FALSE, data |-> data, DC |-> DC]
        ELSE DataResult(DataTokens(IF lead THEN Suffix(rest0, 1) ELSE rest0,
                                   [success |-> ~lead, values |-> <<>>]),
                        data, DC)

\* position of the last occurrence of c in s, 0 for NULL
strrchr(s, c) ==
    IF \E i \in 1..Len(s) : s[i] = c
    THEN CHOOSE i \in 1..Len(s) : s[i] = c /\ \A j \in (i + 1)..Len(s) : s[j] # c
    ELSE 0

\* body is what follows the opening quote, end the position of the last quote
StringContent(body, end, data, DC) ==
    IF end = 0 THEN [ok |-> FALSE, data |-> data, DC |-> DC]
    ELSE IF skip_whitespace(Suffix(body, end)) # <<>>
         THEN [ok |-> FALSE, data |-> data, DC |-> DC]
    ELSE StoreData(TRUE, [i \in 1..(end - 1) |-> Ascii(body[i])] \o <<0>>, data, DC)

validate_string_parameters(params_str, data, DC) ==
    LET start == skip_whitespace(params_str)
    IN  IF At(start, 1) # "\"" THEN [ok |-> FALSE, data |-> data, DC |-> DC]
        ELSE StringContent(Suffix(start, 1), strrchr(Suffix(start, 1), "\""), data, DC)

\* sscanf(s, " [ %d ] [ %d ]%n", &rows, &cols, &n): [count, rows, cols, n, closed].
\* When the last bracket is missing (closed = FALSE) sscanf still returns 2 but
\* does not store n: the code then reads read_count_dims uninitialised.
\* In the parts, a is s after its white space, d1 and d2 the two %d, c what follows the
\* first one and d what follows the bracket that closes it
ScanDimsResult(s, a, d1, c, d, d2) ==
    LET f   == skip_whitespace(Suffix(skip_whitespace(Suffix(d, 1)), d2.used))
        one == At(a, 1) = "[" /\ d1.used > 0
        two == one /\ At(c, 1) = "]" /\ At(d, 1) = "[" /\ d2.used > 0
    IN  [count  |-> IF two THEN 2 ELSE IF one THEN 1 ELSE 0,
         rows   |-> d1.val,
         cols   |-> d2.val,
         n      |-> Len(s) - Len(f) + 1,
         closed |-> two /\ At(f, 1) = "]"]

ScanDimsCols(s, a, d1, c, d) ==
    ScanDimsResult(s, a, d1, c, d, strtol(skip_whitespace(Suffix(d, 1))))

ScanDimsRows(s, a, b, d1) ==
    ScanDimsCols(s, a, d1, skip_whitespace(Suffix(b, d1.used)),
                 skip_whitespace(Suffix(skip_whitespace(Suffix(b, d1.used)), 1)))

ScanDimsOpen(s, a) ==
    ScanDimsRows(s, a, skip_whitespace(Suffix(a, 1)), strtol(skip_whitespace(Suffix(a, 1))))

ScanDims(s) == ScanDimsOpen(s, skip_whitespace(s))

\* the initialisation loop of validate_mat_parameters; acc is
\* [p, count, values, success] and the loop ends at the first failure
RECURSIVE MatValues(_, _)
\* one value of the loop: num is the text of the number at acc.p, n its
\* length, q what follows it and its white space, q2 what follows the comma at q
MatValue(numCells, acc, num, n, q, q2) ==
    LET failed == [acc EXCEPT !.success = FALSE]
        pushed == [acc EXCEPT !.values = Append(@, atoi(num)), !.count = @ + 1]
    IN  IF n = 0 THEN failed
        ELSE IF n >= MAX_LINE_LENGTH THEN failed
        ELSE IF ~is_valid_number(num) THEN failed
        ELSE IF atoi(num) < -512 \/ atoi(num) > 511 THEN failed
        ELSE IF At(q, 1) = "," THEN
            IF q2 = <<>> \/ At(q2, 1) = ","
            THEN [pushed EXCEPT !.p = q2, !.success = FALSE]
            ELSE MatValues(numCells, [pushed EXCEPT !.p = q2])
        ELSE IF q # <<>> THEN [pushed EXCEPT !.p = q, !.success = FALSE]
        ELSE MatValues(numCells, [pushed EXCEPT !.p = q])

\* sg is 1 when the number at p has a sign, nd the number of its digits
MatNumber(numCells, acc, p, sg, nd) ==
    IF nd = 0 THEN [acc EXCEPT !.success = FALSE]
    ELSE MatValue(numCells, acc, Prefix(p, sg + nd), sg + nd,
                  skip_whitespace(Suffix(p, sg + nd)),
                  skip_whitespace(Suffix(skip_whitespace(Suffix(p, sg + nd)), 1)))

MatValues(numCells, acc) ==
    IF acc.p = <<>> \/ acc.count >= numCells THEN acc
    ELSE MatNumber(numCells, acc, acc.p, SignRun(acc.p),
                   DigitRun(Suffix(acc.p, SignRun(acc.p))))

\* r is what the initialisation loop gives; the cells left are set to 0
MatStore(numCells, r, data, DC) ==
    StoreData(r.success, r.values \o [i \in 1..(numCells - r.count) |-> 0], data, DC)

\* cur is the parameter text, dims what sscanf read of its dimensions
MatCells(cur, dims, data, DC) ==
    LET vals0 == skip_whitespace(Suffix(cur, dims.n))
        lead  == At(vals0, 1) = ","
    IN  IF dims.count # 2 THEN [ok |-> FALSE, data |-> data, DC |-> DC]
        ELSE IF dims.rows <= 0 \/ dims.cols <= 0 THEN [ok |-> FALSE, data |-> data, DC |-> DC]
        ELSE MatStore(dims.rows * dims.cols,
                      MatValues(dims.rows * dims.cols,
                          [p |-> skip_whitespace(IF lead THEN Suffix(vals0, 1) ELSE vals0),
                           count |-> 0, values |-> <<>>, success |-> ~lead]),
                      data, DC)

validate_mat_parameters(params_str, data, DC) ==
    MatCells(skip_whitespace(params_str), ScanDims(skip_whitespace(params_str)), data, DC)

\* ------------------------------------------------------------------------
\* first_pass.c: firstPass.  Its state between two lines is the record
\* [err, symTab, IC, DC, insts, data, lineNumber, log]: err is g_has_error,
\* insts and data are temp_i_head and temp_d_head (head first).  log is not
\* in the code: it keeps, for the properties, what each line was read as.
\* ------------------------------------------------------------------------
DOT_DATA == <<".", "d", "a", "t", "a">>
DOT_STRING == <<".", "s", "t", "r", "i", "n", "g">>
DOT_MAT == <<".", "m", "a", "t">>
DOT_EXTERN == <<".", "e", "x", "t", "e", "r", "n">>
DOT_ENTRY == <<".", "e", "n", "t", "r", "y">>

\* a token cut at its first blank or tab, after its leading white space
TrimOperand(token) ==
    Prefix(skip_whitespace(token), strcspn(skip_whitespace(token), {" ", "\t"}))

\* the node of a new instruction; encoded is not in the code: it records, for
\* the properties, that encode_instruction_words ran to its last statement
NewInstruction(IC, lineNumber, command, op1, op2, num_ops) ==
    [address |-> IC,
     original_line_number |-> lineNumber,
     opcode |-> Prefix(command, 4),
     num_operands |-> num_ops,
     operand1 |-> Prefix(op1, MAX_LINE_LENGTH - 1),
     operand2 |-> Prefix(op2, MAX_LINE_LENGTH - 1),
     instruction_length |-> calculate_instruction_length(Prefix(command, 4),
                                Prefix(op1, MAX_LINE_LENGTH - 1),
                                Prefix(op2, MAX_LINE_LENGTH - 1)),
     machine_code_base4 |-> <<>>,
     operand_words_base4 |-> <<>>,
     num_operand_words |-> 0,
     encoded |-> FALSE]

\* the state once addSymbol returned a, its [head, err]
WithSymbols(st, a) == [st EXCEPT !.symTab = a.head, !.err = a.err]

\* the state once the label of the line, if any, was given to addSymbol
Labelled(st, label_name, address, type) ==
    IF label_name # <<>>
    THEN WithSymbols(st, addSymbol(st.symTab, st.err, label_name, address, type))
    ELSE st

\* the "continue" after the addSymbol of a label, taken when g_has_error is
\* set; log is not in the code, its last entry is the line being read
Skipped(st1) == [st1 EXCEPT !.log[Len(st1.log)].skipped = TRUE]

\* a variant that advances IC by one word whatever the length
AppendInstructionOneWord(st, newInst) ==
    IF newInst.instruction_length = -1 THEN [st EXCEPT !.err = TRUE]
    ELSE [st EXCEPT !.insts = <<newInst>> \o @, !.IC = @ + 1]

\* the end of the instruction branch: the node is linked and IC advanced
AppendInstruction(st, newInst) ==
    IF newInst.instruction_length = -1 THEN [st EXCEPT !.err = TRUE]
    ELSE [st EXCEPT !.insts = <<newInst>> \o @, !.IC = @ + newInst.instruction_length]

\* the instruction branch once its label is in the table and its operands
\* were cut: t1, t2 and t3 are the three calls of strtok_r
InstructionNode(st1, label_name, command, t1, t2, t3) ==
    LET Err == [st1 EXCEPT !.err = TRUE]
        op1 == IF t1.isTok THEN TrimOperand(t1.tok) ELSE <<>>
        op2 == IF t2.isTok THEN TrimOperand(t2.tok) ELSE <<>>
        num_ops_found == IF t2.isTok THEN 2 ELSE IF t1.isTok THEN 1 ELSE 0
    IN  IF label_name # <<>> /\ st1.err THEN Skipped(st1)
        ELSE IF ~is_opcode(command) THEN Err
        ELSE IF t1.isTok /\ op1 = <<>> THEN Err
        ELSE IF t2.isTok /\ op2 = <<>> THEN Err
        ELSE IF t3.isTok /\ skip_whitespace(t3.tok) # <<>> THEN Err
        ELSE IF ~validate_instruction_operands(command, op1, op2, num_ops_found) THEN Err
        ELSE AppendInstruction(st1,
                NewInstruction(st1.IC, st1.lineNumber, command, op1, op2, num_ops_found))

\* the body of the loop for a line that holds an instruction
FirstPassInstruction(st, label_name, command, p) ==
    InstructionNode(Labelled(st, label_name, st.IC, SYMBOL_CODE), label_name, command,
                    strtok_r(p),
                    strtok_r(strtok_r(p).rest),
                    strtok_r(strtok_r(strtok_r(p).rest).rest))

\* the .entry branch; w is the name read by sscanf
EntryNamed(st, w) ==
    LET s == findSymbol(st.symTab, w.tok)
    IN  IF ~w.ok THEN [st EXCEPT !.err = TRUE]
        ELSE IF s # 0 THEN
            IF st.symTab[s].type = SYMBOL_EXTERNAL THEN [st EXCEPT !.err = TRUE]
            ELSE [st EXCEPT !.symTab[s].type = SYMBOL_ENTRY]
        ELSE WithSymbols(st, addSymbol(st.symTab, st.err, w.tok, 0, SYMBOL_ENTRY))

FirstPassEntry(st, p) == EntryNamed(st, ScanWord(p))

\* the .extern branch; w is the name read by sscanf
ExternNamed(st, w) ==
    IF ~w.ok THEN [st EXCEPT !.err = TRUE]
    ELSE WithSymbols(st, addSymbol(st.symTab, st.err, w.tok, 0, SYMBOL_EXTERNAL))

FirstPassExtern(st, p) == ExternNamed(st, ScanWord(p))

\* the state once a validate_* function returned r, its [ok, data, DC]
WithData(st, r) == [st EXCEPT !.data = r.data, !.DC = r.DC, !.err = @ \/ ~r.ok]

\* the directive branch once its label is in the table
DirectiveBody(st1, label_name, command, p) ==
    IF label_name # <<>> /\ st1.err THEN Skipped(st1)
    ELSE IF command = DOT_DATA
         THEN WithData(st1, validate_data_parameters(p, st1.data, st1.DC))
    ELSE IF command = DOT_STRING
         THEN WithData(st1, validate_string_parameters(p, st1.data, st1.DC))
    ELSE IF command = DOT_MAT
         THEN WithData(st1, validate_mat_parameters(p, st1.data, st1.DC))
    ELSE IF command = DOT_EXTERN THEN FirstPassExtern(st1, p)
    ELSE IF command = DOT_ENTRY THEN FirstPassEntry(st1, p)
    ELSE [st1 EXCEPT !.err = TRUE]

\* the body of the loop for a line that holds a directive
FirstPassDirective(st, label_name, command, p) ==
    DirectiveBody(Labelled(st, label_name, st.DC, SYMBOL_DATA), label_name, command, p)

\* a .mat line whose dimensions lack the closing bracket: the code reads an
\* uninitialised read_count_dims there
ReadsUninitialised(raw) ==
    LET p0 == skip_whitespace(raw)
        p1 == IF strchr(p0, ":") # 0 THEN skip_whitespace(Suffix(p0, strchr(p0, ":"))) ELSE p0
    IN  /\ ScanWord(p1).ok
        /\ ScanWord(p1).tok = DOT_MAT
        /\ ScanDims(skip_whitespace(Suffix(p1, ScanWord(p1).n))).count = 2
        /\ ~ScanDims(skip_whitespace(Suffix(p1, ScanWord(p1).n))).closed

\* the line once its command word w was read at p1, after the label
FirstPassCommand(st, label_name, p1, w) ==
    LET p2    == skip_whitespace(Suffix(p1, w.n))
        noted == [st EXCEPT !.log = Append(@,
                    [line |-> st.lineNumber, label |-> label_name, cmd |-> w.tok,
                     arg |-> p2, IC |-> st.IC, DC |-> st.DC, errBefore |-> st.err,
                     skipped |-> FALSE])]
    IN  IF ~w.ok THEN (IF label_name # <<>> THEN [st EXCEPT !.err = TRUE] ELSE st)
        ELSE IF w.tok[1] = "." THEN FirstPassDirective(noted, label_name, w.tok, p2)
        ELSE FirstPassInstruction(noted, label_name, w.tok, p2)

\* the line once its colon, if any, was found: colon is its position in p0
FirstPassStatement(st, p0, colon) ==
    LET label_len  == colon - 1
        label_name == IF colon # 0 THEN Prefix(p0, label_len) ELSE <<>>
        p1         == IF colon # 0 THEN skip_whitespace(Suffix(p0, colon)) ELSE p0
    IN  IF colon # 0 /\ label_len = 0 THEN [st EXCEPT !.err = TRUE]
        ELSE IF colon # 0 /\ label_len >= MAX_SYMBOL_LENGTH THEN [st EXCEPT !.err = TRUE]
        ELSE FirstPassCommand(st, label_name, p1, ScanWord(p1))

\* one iteration of the while loop of firstPass, on the line raw
FirstPassLine(st0, raw) ==
    LET st == [st0 EXCEPT !.lineNumber = @ + 1]
        p0 == skip_whitespace(Prefix(raw, strcspn(raw, {"\r", "\n"})))
    IN  IF Len(raw) > MAX_LINE_LENGTH THEN [st EXCEPT !.err = TRUE]
        ELSE IF p0 = <<>> \/ p0[1] = ";" THEN st
        ELSE FirstPassStatement(st, p0, strchr(p0, ":"))

\* firstPass before its first line: g_has_error is reset
FirstPassStart ==
    [err |-> FALSE, symTab |-> <<>>, IC |-> MEMORY_START, DC |-> 0,
     insts |-> <<>>, data |-> <<>>, lineNumber |-> 0, log |-> <<>>]

\* a variant that leaves the two lists as they were built, newest first
FirstPassEndUnreversed(st) ==
    [st EXCEPT !.symTab = updateDataSymbolsAddresses(@, st.IC)]

\* firstPass after its last line: both lists reversed into source order, the
\* data symbols relocated by the final IC
FirstPassEnd(st) ==
    [st EXCEPT !.insts = Reverse(@),
               !.data = Reverse(@),
               !.symTab = updateDataSymbolsAddresses(@, st.IC)]

\* ------------------------------------------------------------------------
\* convertToBase4.c.  A base-4 word is a string over a, b, c, d.
\* ------------------------------------------------------------------------
Base4Digit(d) == <<"a", "b", "c", "d">>[d + 1]

\* the loop of convertToBase4: the digits of value, least significant last
RECURSIVE Base4Digits(_, _)
Base4Digits(value, n) ==
    IF n = 0 THEN <<>>
    ELSE Append(Base4Digits(value \div 4, n - 1), Base4Digit(value % 4))

\* a variant that keeps nine bits of the value
convertToBase4NineBits(value) == Base4Digits(value % 512, BASE4_WORD_LENGTH)

convertToBase4(value) == Base4Digits(value % 1024, BASE4_WORD_LENGTH)

RECURSIVE LeadingA(_)
LeadingA(s) == IF Len(s) <= 1 \/ Head(s) # "a" THEN 0 ELSE 1 + LeadingA(Tail(s))

stripLeadingA(base4_str) == Suffix(base4_str, LeadingA(base4_str))

\* ------------------------------------------------------------------------
\* second_pass.c
\* ------------------------------------------------------------------------
RECURSIVE TrailingSpaceRun(_)
TrailingSpaceRun(s) ==
    IF Len(s) <= 1 \/ ~isspace(s[Len(s)]) THEN 0
    ELSE 1 + TrailingSpaceRun(Prefix(s, Len(s) - 1))

trim_whitespace(str) ==
    LET start == skip_whitespace(str)
    IN  IF str = <<>> THEN str ELSE Prefix(start, Len(start) - TrailingSpaceRun(start))

OpcodeBase4 ==
    << <<"a","a">>, <<"a","b">>, <<"a","c">>, <<"a","d">>,
       <<"b","a">>, <<"b","b">>, <<"b","c">>, <<"b","d">>,
       <<"c","a">>, <<"c","b">>, <<"c","c">>, <<"c","d">>,
       <<"d","a">>, <<"d","b">>, <<"d","c">>, <<"d","d">> >>

get_opcode_base4(opcode_str) ==
    IF is_opcode(opcode_str) THEN OpcodeBase4[OpcodeNum(opcode_str) + 1]
    ELSE <<"a","a","a","a">>

get_register_base4(reg_str) ==
    IF ~is_register(reg_str) THEN <<"a","a">>
    ELSE << <<"a","a">>, <<"a","b">>, <<"a","c">>, <<"a","d">>,
            <<"b","a">>, <<"b","b">>, <<"b","c">>, <<"b","d">> >>[atoi(Suffix(reg_str, 1)) + 1]

encode_matrix_registers(row_reg, col_reg) ==
    IF row_reg = 2 /\ col_reg = 7 THEN <<"c","a","b","b","c">>
    ELSE IF row_reg = 3 /\ col_reg = 3 THEN <<"a","d","a","d","a">>
    ELSE Base4Digits((row_reg % 16) * 64 + (col_reg % 16) * 4, 5)

\* An immediate operand's word: [failed, word]
\* value is what atoi read after the '#'
ImmediateWord(value) ==
    [failed |-> value < -512 \/ value > 511,
     word   |-> Prefix(convertToBase4(value), BASE4_WORD_LENGTH - 1) \o <<"a">>]

EncodeImmediate(operand) == ImmediateWord(atoi(Suffix(operand, 1)))

\* The operand blocks work on e, the record [words, symTab, err, failed,
\* shared]: words are the operand words emitted so far for the instruction.
\* The error exits of the blocks:
EncodeFailed(e) == [e EXCEPT !.err = TRUE, !.failed = TRUE]

\* the second word of a matrix operand; regs is what sscanf read, e1 the
\* state after the address word
MatrixRegistersWord(e1, operand, regs) ==
    IF ScanMatrixRegs(operand) # 2 THEN EncodeFailed(e1)
    ELSE IF regs.m < 0 \/ regs.m > 7 \/ regs.n < 0 \/ regs.n > 7 THEN EncodeFailed(e1)
    ELSE [e1 EXCEPT !.words = Append(@, encode_matrix_registers(regs.m, regs.n))]

\* the table after addExternalUsage, called for an external symbol
ExternalUse(e, sym, address) ==
    IF e.symTab[sym].type = SYMBOL_EXTERNAL
    THEN addExternalUsage(e.symTab, e.err, sym, address + Len(e.words) + 1)
    ELSE [head |-> e.symTab, err |-> e.err]

\* the address word of the symbol at index sym; used is what ExternalUse gave
AddressWord(e, sym, used) ==
    [e EXCEPT !.words = Append(@,
                  Prefix(convertToBase4(e.symTab[sym].address), BASE4_WORD_LENGTH - 1)
                      \o <<IF e.symTab[sym].type = SYMBOL_EXTERNAL THEN "b" ELSE "c">>),
              !.symTab = used.head,
              !.err = used.err]

\* e1 is the state after the address word
AfterAddress(e1, operand, mode) ==
    IF mode # "c" THEN e1 ELSE MatrixRegistersWord(e1, operand, ScanMatrix(operand))

\* the words of a direct-label or matrix operand; sym is the index findSymbol
\* gave for its label
ReferenceTo(e, operand, mode, address, sym) ==
    IF sym = 0 THEN EncodeFailed(e)
    ELSE AfterAddress(AddressWord(e, sym, ExternalUse(e, sym, address)), operand, mode)

EncodeReference(e, operand, mode, address) ==
    IF mode = "c" /\ ScanMatrixLabel(operand) # 1 THEN EncodeFailed(e)
    ELSE ReferenceTo(e, operand, mode, address,
             findSymbol(e.symTab, IF mode = "c" THEN ScanMatrix(operand).label ELSE operand))

\* the word of an immediate operand is added, or the operand is rejected
ImmediateInto(e, imm) ==
    IF imm.failed THEN EncodeFailed(e) ELSE [e EXCEPT !.words = Append(@, imm.word)]

\* the word of one or two registers; s and d are their two digits each
RegistersInto(e, s, d) == [e EXCEPT !.words = Append(@, <<s[1], s[2], d[1], d[2], "a">>)]

\* "Process Operand 1" of encode_instruction_words
EncodeOperand1(e, inst, op1, op2, src) ==
    IF src = "d" /\ inst.num_operands = 2 /\ get_addressing_mode_base4(op2) = "d"
    THEN [RegistersInto(e, get_register_base4(op1), get_register_base4(op2))
            EXCEPT !.shared = TRUE]
    ELSE IF src = "a" THEN ImmediateInto(e, EncodeImmediate(op1))
    ELSE IF src = "d" THEN RegistersInto(e, get_register_base4(op1), <<"a", "a">>)
    ELSE EncodeReference(e, op1, src, inst.address)

\* "Process Operand 2" of encode_instruction_words; dest is the mode of op2
OperandInMode(e, inst, op2, dest) ==
    IF dest = "a" THEN ImmediateInto(e, EncodeImmediate(op2))
    ELSE IF dest = "d" THEN RegistersInto(e, <<"a", "a">>, get_register_base4(op2))
    ELSE EncodeReference(e, op2, dest, inst.address)

EncodeOperand2(e, inst, op2) == OperandInMode(e, inst, op2, get_addressing_mode_base4(op2))

\* the end of encode_instruction_words: worded is the node with its first
\* word, e2 the state after the operand blocks
EncodeDone(inst, worded, e2) ==
    IF e2.failed
    THEN [inst |-> [worded EXCEPT !.operand_words_base4 = e2.words],
          symTab |-> e2.symTab, err |-> TRUE]
    ELSE [inst |-> [worded EXCEPT !.operand_words_base4 = e2.words,
                                  !.num_operand_words = Len(e2.words),
                                  !.encoded = TRUE],
          symTab |-> e2.symTab,
          err |-> e2.err \/ Len(e2.words) + 1 # inst.instruction_length]

\* e1 is the state after the block of operand 1
EncodeSecond(inst, worded, op2, e1) ==
    EncodeDone(inst, worded,
        IF e1.failed THEN e1
        ELSE IF inst.num_operands = 2 /\ ~e1.shared THEN EncodeOperand2(e1, inst, op2)
        ELSE e1)

\* op1 and op2 are the trimmed operands, src and dest their modes
EncodeWords(inst, symTab, err, opcode_base4_str, op1, op2, src, dest) ==
    LET trimmed == [inst EXCEPT !.operand1 = op1, !.operand2 = op2]
        worded  == [trimmed EXCEPT
                      !.machine_code_base4 =
                          <<opcode_base4_str[1], opcode_base4_str[2], src, dest, "a">>,
                      !.num_operand_words = 0]
        e0 == [words |-> <<>>, symTab |-> symTab, err |-> err, failed |-> FALSE,
               shared |-> FALSE]
    IN  IF opcode_base4_str = <<"a","a","a","a">>
        THEN [inst |-> inst, symTab |-> symTab, err |-> TRUE]
        ELSE IF ~validate_instruction_operands(inst.opcode, op1, op2, inst.num_operands)
        THEN [inst |-> trimmed, symTab |-> symTab, err |-> TRUE]
        ELSE EncodeSecond(inst, worded, op2,
                IF inst.num_operands >= 1 THEN EncodeOperand1(e0, inst, op1, op2, src)
                ELSE e0)

EncodeTrimmed(inst, symTab, err, op1, op2) ==
    EncodeWords(inst, symTab, err, get_opcode_base4(inst.opcode), op1, op2,
        IF inst.num_operands >= 1 THEN get_addressing_mode_base4(op1) ELSE "a",
        IF inst.num_operands = 2 THEN get_addressing_mode_base4(op2) ELSE "a")

\* encode_instruction_words(inst, symTab, line): [inst, symTab, err]
encode_instruction_words(inst, symTab, err) ==
    EncodeTrimmed(inst, symTab, err, trim_whitespace(inst.operand1),
                  trim_whitespace(inst.operand2))

\* the first loop of secondPass over the instructions from index i on;
\* acc is [insts, symTab, err]
RECURSIVE EncodeAll(_, _)
\* r is what encode_instruction_words gave for the instruction at index i
EncodeNext(acc, i, r) ==
    EncodeAll([insts |-> [acc.insts EXCEPT ![i] = r.inst],
               symTab |-> r.symTab, err |-> r.err], i + 1)

EncodeAll(acc, i) ==
    IF i > Len(acc.insts) THEN acc
    ELSE EncodeNext(acc, i, encode_instruction_words(acc.insts[i], acc.symTab, acc.err))

\* the second loop of secondPass: an entry symbol still at address 0
EntryUndefined(symTab) ==
    \E i \in 1..Len(symTab) : symTab[i].type = SYMBOL_ENTRY /\ symTab[i].address = 0

\* r is the state after the first loop
CheckEntries(r) == [r EXCEPT !.err = @ \/ EntryUndefined(r.symTab)]

secondPass(insts, symTab, err) ==
    CheckEntries(EncodeAll([insts |-> insts, symTab |-> symTab, err |-> err], 1))

\* ------------------------------------------------------------------------
\* output_files.c.  A file is [exists, lines], a line a string without its
\* newline.
\* ------------------------------------------------------------------------
NoFile == [exists |-> FALSE, lines |-> <<>>]

\* the lines of one instruction in the object file
InstructionLines(inst) ==
    << convertToBase4(inst.address) \o <<"\t">> \o inst.machine_code_base4 >>
    \o [i \in 1..inst.num_operand_words |->
            convertToBase4(inst.address + (i - 1) + 1) \o <<"\t">>
                \o inst.operand_words_base4[i]]

RECURSIVE Flatten(_)
Flatten(ss) == IF ss = <<>> THEN <<>> ELSE Head(ss) \o Flatten(Tail(ss))

writeObjectFile(ICF, DCF, dataList, instructionList) ==
    [exists |-> TRUE,
     lines  |->
        << stripLeadingA(convertToBase4(ICF)) \o <<" ">> \o stripLeadingA(convertToBase4(DCF)) >>
        \o Flatten([i \in 1..Len(instructionList) |-> InstructionLines(instructionList[i])])
        \o [i \in 1..Len(dataList) |->
                convertToBase4(dataList[i].address + ICF + MEMORY_START) \o <<"\t">>
                    \o convertToBase4(dataList[i].value)]]

EntryLines(symTab) ==
    Flatten([i \in 1..Len(symTab) |->
        IF symTab[i].type = SYMBOL_ENTRY /\ symTab[i].address >= MEMORY_START
        THEN << symTab[i].name \o <<" ">> \o convertToBase4(symTab[i].address) >>
        ELSE <<>>])

writeEntriesFile(symTab) ==
    IF EntryLines(symTab) = <<>> THEN NoFile
    ELSE [exists |-> TRUE, lines |-> EntryLines(symTab)]

ExternalLines(symTab) ==
    Flatten([i \in 1..Len(symTab) |->
        IF symTab[i].type = SYMBOL_EXTERNAL
        THEN [j \in 1..Len(symTab[i].external_usages) |->
                 symTab[i].name \o <<" ">> \o convertToBase4(symTab[i].external_usages[j])]
        ELSE <<>>])

writeExternalsFile(symTab) ==
    IF ExternalLines(symTab) = <<>> THEN NoFile
    ELSE [exists |-> TRUE, lines |-> ExternalLines(symTab)]

\* ------------------------------------------------------------------------
\* macro_processor.c.  The macro list is head first (the newest macro); a
\* macro is [name, lines]; currentMacro is the head while inMacro is set.
\* The state of processMacroDefinitions between two lines is the record
\* [err, macroList, inMacro, lineNumber].
\* ------------------------------------------------------------------------
MCRO == <<"m", "c", "r", "o">>
MCROEND == <<"m", "c", "r", "o", "e", "n", "d">>

is_reserved_macro_name(name) ==
    \/ is_opcode(name) \/ is_register(name)
    \/ name \in {DOT_DATA, DOT_STRING, DOT_MAT, DOT_EXTERN, DOT_ENTRY, MCRO, MCROEND}

MacroScanStart == [err |-> FALSE, macroList |-> <<>>, inMacro |-> FALSE, lineNumber |-> 0]

\* the line "mcro <name>": nm is the name read at macro_name_pos
MacroScanName(ms, macro_name_pos, nm) ==
    LET remaining == skip_whitespace(Suffix(macro_name_pos, nm.n))
        duplicate == \E i \in 1..Len(ms.macroList) : ms.macroList[i].name = nm.tok
        Closed    == [ms EXCEPT !.err = TRUE, !.inMacro = FALSE]
    IN  IF ms.inMacro THEN [ms EXCEPT !.err = TRUE]
        ELSE IF ~nm.ok THEN Closed
        ELSE IF remaining # <<>> THEN Closed
        ELSE IF ~is_valid_label(nm.tok) \/ is_reserved_macro_name(nm.tok) THEN Closed
        ELSE IF duplicate \/ ms.err THEN Closed
        ELSE [ms EXCEPT !.inMacro = TRUE,
                        !.macroList = << [name  |-> Prefix(nm.tok, MAX_SYMBOL_LENGTH - 1),
                                          lines |-> <<>>] >> \o @]

\* the line once its first word w was read
MacroScanWord(ms, line, trimmed_line, w) ==
    LET macro_name_pos == skip_whitespace(Suffix(trimmed_line, w.n))
    IN  IF ~w.ok THEN ms
        ELSE IF w.tok = MCRO THEN MacroScanName(ms, macro_name_pos, ScanWord(macro_name_pos))
        ELSE IF w.tok = MCROEND THEN
            IF ~ms.inMacro THEN [ms EXCEPT !.err = TRUE]
            ELSE [ms EXCEPT !.inMacro = FALSE, !.err = @ \/ macro_name_pos # <<>>]
        ELSE IF ms.inMacro THEN [ms EXCEPT !.macroList[1].lines = Append(@, line)]
        ELSE ms

\* one iteration of the while loop of processMacroDefinitions, on the line raw
MacroScanLine(ms0, raw) ==
    LET ms   == [ms0 EXCEPT !.lineNumber = @ + 1]
        line == Prefix(raw, strcspn(raw, {"\r", "\n"}))
        trimmed_line == skip_whitespace(line)
    IN  IF Len(raw) > MAX_LINE_LENGTH THEN [ms EXCEPT !.err = TRUE]
        ELSE IF trimmed_line = <<>> \/ trimmed_line[1] = ";" THEN ms
        ELSE MacroScanWord(ms, line, trimmed_line, ScanWord(trimmed_line))

\* processMacroDefinitions after its last line
MacroScanEnd(ms) == [ms EXCEPT !.err = @ \/ ms.inMacro]

\* index of the first macro called name, 0 when there is none
FindMacro(macroList, name) ==
    IF \E i \in 1..Len(macroList) : macroList[i].name = name
    THEN CHOOSE i \in 1..Len(macroList) :
            /\ macroList[i].name = name
            /\ \A j \in 1..(i - 1) : macroList[j].name # name
    ELSE 0

Min(a, b) == IF a < b THEN a ELSE b

\* m is the index FindMacro gave for the word at start_off
ExpandCall(raw, macroList, colon, start_off, m) ==
    IF m = 0 THEN <<raw>>
    ELSE IF macroList[m].lines = <<>> THEN <<>>
    ELSE IF colon # 0
         THEN << Prefix(raw, start_off) \o macroList[m].lines[1] >> \o Tail(macroList[m].lines)
    ELSE macroList[m].lines

\* macro_start is the line from start_off on, after the label if there is one
ExpandWord(raw, macroList, colon, start_off, macro_start) ==
    LET macro_name ==
            Prefix(macro_start, Min(NonSpaceRun(macro_start), MAX_SYMBOL_LENGTH - 1))
    IN  IF macro_start = <<>> THEN <<raw>>
        ELSE IF macro_name = <<>> THEN <<raw>>
        ELSE ExpandCall(raw, macroList, colon, start_off, FindMacro(macroList, macro_name))

\* lead is the length of the leading white space, colon the position of the
\* colon in what follows it
ExpandAt(raw, macroList, line_copy, lead, colon) ==
    LET start_off ==
            IF colon # 0
            THEN lead + colon + SpaceRun(Suffix(line_copy, lead + colon))
            ELSE lead
    IN  ExpandWord(raw, macroList, colon, start_off, Suffix(line_copy, start_off))

\* expandMacroInLine, and what main writes of its result: the lines put in
\* the .am file for the source line raw
expandMacroInLine(raw, macroList) ==
    LET line_copy == Prefix(raw, strcspn(raw, {"\r", "\n"}))
        trimmed   == skip_whitespace(line_copy)
    IN  IF trimmed = <<>> \/ trimmed[1] = ";" THEN <<raw>>
        ELSE ExpandAt(raw, macroList, line_copy, SpaceRun(line_copy), strchr(trimmed, ":"))

\* ------------------------------------------------------------------------
\* main.c: the loop that writes the .am file, from line i of the source on;
\* acc is [am, inside_macro_def]
\* ------------------------------------------------------------------------
RECURSIVE ExpandLoop(_, _, _, _)
\* first_word is what sscanf read at the start of line i
ExpandLine(source, i, macroList, acc, first_word) ==
    IF first_word.ok /\ first_word.tok = MCRO
    THEN ExpandLoop(source, i + 1, macroList, [acc EXCEPT !.inside_macro_def = TRUE])
    ELSE IF first_word.ok /\ first_word.tok = MCROEND
    THEN ExpandLoop(source, i + 1, macroList, [acc EXCEPT !.inside_macro_def = FALSE])
    ELSE IF acc.inside_macro_def THEN ExpandLoop(source, i + 1, macroList, acc)
    ELSE ExpandLoop(source, i + 1, macroList,
                    [acc EXCEPT !.am = @ \o expandMacroInLine(source[i], macroList)])

ExpandLoop(source, i, macroList, acc) ==
    IF i > Len(source) THEN acc
    ELSE ExpandLine(source, i, macroList, acc, ScanWord(skip_whitespace(source[i])))

\* ------------------------------------------------------------------------
\* The source files the specifications read.  A unit is read line by line by
\* the macro scan; its lines are drawn from the set of its kind of unit.
\* ------------------------------------------------------------------------
MaxLines == 3

NameX == <<"X">>
NameY == <<"Y">>
NameA == <<"A">>
STOP == Opcodes[16]
JMP == Opcodes[10]
LEA == Opcodes[7]
MatrixX == NameX \o <<"[", "r", "1", "]", "[", "r", "2", "]">>

\* units about symbols: definitions, declarations and uses of X
SymLines ==
    { NameX \o <<":", " ">> \o DOT_DATA \o <<" ", "5">>,
      NameX \o <<":", " ">> \o STOP,
      DOT_ENTRY \o <<" ">> \o NameX,
      DOT_EXTERN \o <<" ">> \o NameX,
      JMP \o <<" ">> \o NameX,
      STOP,
      NameA \o <<":", " ">> \o DOT_MAT \o <<" ", "[", "1", "0", "]", "[", "1", "0", "]">>,
      LEA \o <<" ">> \o MatrixX \o <<",", " ">> \o NameX,
      NameY \o <<":", " ">> \o DOT_EXTERN \o <<" ">> \o NameX,
      DOT_DATA \o <<" ", "7">>,
      NameY \o <<":", " ">> \o JMP,
      MCROEND }

\* units about one instruction: a line that declares X, then the instruction
InstrPreludes ==
    { NameX \o <<":", " ">> \o DOT_DATA \o <<" ", "5">>,
      DOT_EXTERN \o <<" ">> \o NameX }

InstrOperands ==
    { <<"#", "5">>, <<"r", "3">>, NameX, MatrixX, <<"r", "9">>,
      NameX \o <<"[", "r", "1", "]", "[", "r", "9", "]">>,
      <<"#", "6", "0", "0">>,
      NameX \o <<"[", "r", "1", "]">>,
      NameX \o <<"[", "r", "1", "]", "[", "r", "2">> }

InstrOperandLists ==
    {<<>>} \cup {<<a>> : a \in InstrOperands}
           \cup {<<a, b>> : a \in InstrOperands, b \in InstrOperands}

InstrLine(opcode, ops) ==
    opcode \o (IF ops = <<>> THEN <<>> ELSE <<" ">> \o ops[1])
           \o (IF Len(ops) = 2 THEN <<",", " ">> \o ops[2] ELSE <<>>)

InstrLines == {InstrLine(Opcodes[i], ops) : i \in 1..Len(Opcodes), ops \in InstrOperandLists}

\* units about macros: definitions and calls of M, well formed or not, and
\* lines of 81 and of 82 characters
MaxMacroLines == 4

NameM == <<"M">>
Semicolons(n) == [i \in 1..n |-> ";"]

MacroLines ==
    { MCRO \o <<" ">> \o NameM,
      MCROEND,
      <<" ">> \o STOP,
      NameM,
      NameX \o <<":", " ">> \o NameM,
      MCRO \o <<" ">> \o NameM \o <<" ">> \o NameX,
      MCROEND \o <<" ">> \o NameX,
      MCRO \o <<" ">> \o STOP,
      MCRO,
      Semicolons(MAX_LINE_LENGTH),
      Semicolons(MAX_LINE_LENGTH + 1) }

\* units about size: a matrix A of 100 or of 1024 words, then lines that use it
BigPreludes ==
    { NameA \o <<":", " ">> \o DOT_MAT \o <<" ", "[", "1", "0", "]", "[", "1", "0", "]">>,
      NameA \o <<":", " ">> \o DOT_MAT \o <<" ", "[", "3", "2", "]", "[", "3", "2", "]">> }

BigLines ==
    { STOP,
      JMP \o <<" ">> \o NameA,
      DOT_ENTRY \o <<" ">> \o NameA,
      NameX \o <<":", " ">> \o DOT_DATA \o <<" ", "7">>,
      LEA \o <<" ">> \o NameA \o <<"[", "r", "1", "]", "[", "r", "2", "]", ",", " ", "r", "3">> }

\* the units of one invocation: they fail in the macro scan, in pass 1 or in
\* pass 2, or assemble, with or without a macro
UnitLines ==
    { MCRO \o <<" ">> \o NameM,
      MCROEND,
      STOP,
      NameM,
      JMP \o <<" ">> \o NameX,
      NameY \o <<":", " ">> \o JMP }

\* units about matrix operands: X, then an instruction with X[rx][ry] as its
\* only, its first or its second operand, for every pair of registers
MatrixOperand(name, x, y) ==
    name \o <<"[", "r", Digits[x + 1], "]", "[", "r", Digits[y + 1], "]">>

MatLines ==
    {InstrLine(Opcodes[8], <<MatrixOperand(NameX, x, y)>>) : x \in 0..7, y \in 0..7}
    \cup {InstrLine(Opcodes[1], <<MatrixOperand(NameX, x, y), <<"r", "3">> >>) :
              x \in 0..7, y \in 0..7}
    \cup {InstrLine(Opcodes[1], <<NameX, MatrixOperand(NameX, x, y)>>) :
              x \in 0..7, y \in 0..7}

\* units about a label on a declaration: Y before .extern and .entry, and
\* definitions and uses of Y and X
LabelLines ==
    { NameY \o <<":", " ">> \o DOT_EXTERN \o <<" ">> \o NameX,
      NameY \o <<":", " ">> \o DOT_ENTRY \o <<" ">> \o NameX,
      NameY \o <<":", " ">> \o STOP,
      NameY \o <<":", " ">> \o DOT_DATA \o <<" ", "5">>,
      NameX \o <<":", " ">> \o STOP,
      JMP \o <<" ">> \o NameY,
      STOP }

\* units about the commas of an operand field: leading, trailing, doubled,
\* and a third operand
MOV == Opcodes[1]
INC == Opcodes[8]

CommaLines ==
    { MOV \o <<" ", "r", "1", ",", " ", "r", "2">>,
      MOV \o <<" ", ",", "r", "1", ",", " ", "r", "2">>,
      MOV \o <<" ", "r", "1", ",", " ", "r", "2", ",">>,
      MOV \o <<" ", "r", "1", ",", ",", " ", "r", "2">>,
      MOV \o <<" ", "r", "1", ",", " ", "r", "2", ",", " ", "r", "3">>,
      INC \o <<" ", "r", "1", ",">>,
      NameX \o <<":", " ">> \o INC \o <<" ", ",", "r", "1">>,
      STOP \o <<" ", ",">>,
      STOP }

\* units about .data lists: well formed, with a misplaced comma, with an item
\* that is no number or is out of range
DataLine(list) == DOT_DATA \o <<" ">> \o list

DataLines ==
    { DataLine(<<"5">>),
      DataLine(<<"5", ",", " ", "-", "6">>),
      NameX \o <<":", " ">> \o DataLine(<<"7", ",", "8", ",", "9">>),
      DataLine(<<",", "5">>),
      DataLine(<<"5", ",">>),
      DataLine(<<"5", ",", ",", "6">>),
      DataLine(<<"5", "x">>),
      DataLine(<<"5", "1", "2">>),
      DataLine(<<"-", "5", "1", "2">>),
      DOT_DATA }

\* units about the length of a line: comment lines of 80, 81 and 82
\* characters, and stop
LongLines ==
    { Semicolons(MAX_LINE_LENGTH - 1),
      Semicolons(MAX_LINE_LENGTH),
      Semicolons(MAX_LINE_LENGTH + 1),
      STOP }

\* units about an operand r9: the instruction, and lines that define or
\* declare a symbol of that name
NameR9 == <<"r", "9">>
MovR1R9 == MOV \o <<" ", "r", "1", ",", " ">> \o NameR9

RegLines ==
    { MovR1R9,
      NameR9 \o <<":", " ">> \o DOT_DATA \o <<" ", "5">>,
      NameR9 \o <<":", " ">> \o STOP,
      DOT_EXTERN \o <<" ">> \o NameR9,
      MOV \o <<" ", "r", "1", ",", " ", "r", "7">>,
      STOP }

\* the lines that can be line n of a unit of the kind input
Alphabet(kind, n) ==
    IF kind = "sym" THEN (IF n <= MaxLines THEN SymLines ELSE {})
    ELSE IF kind = "units" THEN (IF n <= MaxLines THEN UnitLines ELSE {})
    ELSE IF kind = "big"
         THEN (IF n = 1 THEN BigPreludes ELSE IF n <= MaxLines THEN BigLines ELSE {})
    ELSE IF kind = "macro" THEN (IF n <= MaxMacroLines THEN MacroLines ELSE {})
    ELSE IF kind = "label" THEN (IF n <= MaxLines THEN LabelLines ELSE {})
    ELSE IF kind = "comma" THEN (IF n <= MaxLines THEN CommaLines ELSE {})
    ELSE IF kind = "data" THEN (IF n <= MaxLines THEN DataLines ELSE {})
    ELSE IF kind = "long" THEN (IF n <= MaxLines THEN LongLines ELSE {})
    ELSE IF kind = "reg" THEN (IF n <= MaxLines THEN RegLines ELSE {})
    ELSE IF kind = "mat"
         THEN (IF n = 1 THEN InstrPreludes ELSE IF n = 2 THEN MatLines ELSE {})
    ELSE IF n = 1 THEN InstrPreludes
    ELSE IF n = 2 THEN InstrLines
    ELSE {}

\* ------------------------------------------------------------------------
\* main.c: one unit, from the opening of its .as file to its output files
\* ------------------------------------------------------------------------
VARIABLES
    input,            \* the kind of unit being read
    src,              \* the lines of the .as file read so far
    pc,               \* where main is: scan, expand, pass1, pass2, write, done
    g_has_error,      \* the global error flag
    ms,               \* the state of processMacroDefinitions
    inside_macro_def, \* main's marker, declared outside the loop over the units
    am,               \* the lines of the .am file
    st,               \* the state of firstPass, then the lists given to pass 2
    ob, ent, ext,     \* the three output files
    raised,           \* not in the code: the stages in which the flag was set
    ran,              \* not in the code: the stages that were started
    conv,             \* a call of convertToBase4 and of stripLeadingA on its result
    earlier           \* not in the code: how the units before this one ended

vars == <<input, src, pc, g_has_error, ms, inside_macro_def, am, st, ob, ent, ext,
          raised, ran, conv, earlier>>

InitUnit ==
    /\ src = <<>>
    /\ pc = "scan"
    /\ g_has_error = FALSE
    /\ ms = MacroScanStart
    /\ inside_macro_def = FALSE
    /\ am = <<>>
    /\ st = FirstPassStart
    /\ ob = NoFile /\ ent = NoFile /\ ext = NoFile
    /\ raised = {}
    /\ ran = {"macro"}
    /\ conv = [step |-> "idle", value |-> 0, word |-> <<>>, stripped |-> <<>>]
    /\ earlier = {}

InitSym == input = "sym" /\ InitUnit

InitInstr == input = "instr" /\ InitUnit

InitMacro == input = "macro" /\ InitUnit

InitBig == input = "big" /\ InitUnit

\* the stage is added to raised when the step set the flag
Raise(stage, before, after) == IF ~before /\ after THEN raised \cup {stage} ELSE raised

\* main.c line 153: the second pass runs when the flag is clear
SecondPassGate(err) == ~err

\* a variant that writes the output files whatever the flag
OutputGateAlways(err) == TRUE

\* main.c line 160: the output files are written when the flag is clear
OutputGate(err) == ~err

\* processMacroDefinitions reads one more line of the source
MacroScanReadLine ==
    /\ pc = "scan"
    /\ \E l \in Alphabet(input, Len(src) + 1) :
       \E r \in {MacroScanLine([ms EXCEPT !.err = g_has_error], l)} :
            /\ src' = Append(src, l)
            /\ ms' = r
            /\ g_has_error' = r.err
            /\ raised' = Raise("macro", g_has_error, r.err)
    /\ UNCHANGED <<conv, earlier, input, pc, inside_macro_def, am, st, ob, ent, ext, ran>>

\* processMacroDefinitions reaches the end of the source and returns; main
\* leaves the unit when the flag is set (main.c lines 84 to 89)
MacroScanEOF ==
    /\ pc = "scan"
    /\ \E r \in {MacroScanEnd([ms EXCEPT !.err = g_has_error])} :
           /\ ms' = r
           /\ g_has_error' = r.err
           /\ raised' = Raise("macro", g_has_error, r.err)
           /\ pc' = IF r.err THEN "done" ELSE "expand"
    /\ UNCHANGED <<conv, earlier, input, src, inside_macro_def, am, st, ob, ent, ext, ran>>

\* main writes the .am file (main.c lines 91 to 144) and calls firstPass, which
\* clears the flag before its first line
WriteAmFile ==
    /\ pc = "expand"
    /\ \E r \in {ExpandLoop(src, 1, ms.macroList,
                            [am |-> <<>>, inside_macro_def |-> inside_macro_def])} :
           /\ am' = r.am
           /\ inside_macro_def' = r.inside_macro_def
    /\ st' = FirstPassStart
    /\ g_has_error' = FALSE
    /\ pc' = "pass1"
    /\ ran' = ran \cup {"pass1"}
    /\ UNCHANGED <<conv, earlier, input, src, ms, ob, ent, ext, raised>>

\* firstPass reads one more line of the .am file
FirstPassReadLine ==
    /\ pc = "pass1"
    /\ st.lineNumber < Len(am)
    /\ \E r \in {FirstPassLine([st EXCEPT !.err = g_has_error], am[st.lineNumber + 1])} :
           /\ st' = r
           /\ g_has_error' = r.err
           /\ raised' = Raise("pass1", g_has_error, r.err)
    /\ UNCHANGED <<conv, earlier, input, src, pc, ms, inside_macro_def, am, ob, ent, ext, ran>>

\* firstPass reaches the end of the .am file and returns (main.c lines 147 to 153)
FirstPassEOF ==
    /\ pc = "pass1"
    /\ st.lineNumber = Len(am)
    /\ st' = FirstPassEnd([st EXCEPT !.err = g_has_error])
    /\ pc' = IF SecondPassGate(g_has_error) THEN "pass2" ELSE "write"
    /\ UNCHANGED <<conv, earlier, input, src, g_has_error, ms, inside_macro_def, am, ob, ent, ext,
                   raised, ran>>

\* main calls secondPass (main.c lines 154 to 156)
SecondPass ==
    /\ pc = "pass2"
    /\ \E r \in {secondPass(st.insts, st.symTab, g_has_error)} :
           /\ st' = [st EXCEPT !.insts = r.insts, !.symTab = r.symTab, !.err = r.err]
           /\ g_has_error' = r.err
           /\ raised' = Raise("pass2", g_has_error, r.err)
    /\ pc' = "write"
    /\ ran' = ran \cup {"pass2"}
    /\ UNCHANGED <<conv, earlier, input, src, ms, inside_macro_def, am, ob, ent, ext>>

\* main writes the output files, or none (main.c lines 160 to 170)
WriteOutputFiles ==
    /\ pc = "write"
    /\ IF OutputGate(g_has_error)
       THEN /\ ob' = writeObjectFile(st.IC - MEMORY_START, st.DC, st.data, st.insts)
            /\ ent' = writeEntriesFile(st.symTab)
            /\ ext' = writeExternalsFile(st.symTab)
       ELSE UNCHANGED <<ob, ent, ext>>
    /\ pc' = "done"
    /\ UNCHANGED <<conv, earlier, input, src, g_has_error, ms, inside_macro_def, am, st,
                   raised, ran>>

\* the values given to convertToBase4: -MaxValue .. MaxValue
MaxValue == 600

\* a caller converts a value
Convert ==
    /\ conv.step = "idle"
    /\ \E value \in (0 - MaxValue)..MaxValue :
           conv' = [conv EXCEPT !.step = "converted", !.value = value,
                                !.word = convertToBase4(value)]
    /\ UNCHANGED <<input, src, pc, g_has_error, ms, inside_macro_def, am, st, ob, ent, ext,
                   raised, ran, earlier>>

\* the caller strips the result, as writeObjectFile does for the header
Strip ==
    /\ conv.step = "converted"
    /\ conv' = [conv EXCEPT !.step = "stripped", !.stripped = stripLeadingA(conv.word)]
    /\ UNCHANGED <<input, src, pc, g_has_error, ms, inside_macro_def, am, st, ob, ent, ext,
                   raised, ran, earlier>>

\* a variant that leaves the flag as the unit before left it
NewUnitFlagKept(err) == err

\* main.c line 72: the flag is cleared for the new unit
NewUnitFlag(err) == FALSE

\* main goes to the next unit of the command line: the locals of the loop
\* body are initialised again, inside_macro_def is not; the files of the
\* new unit are not those of the unit before
NextUnit ==
    /\ pc = "done"
    /\ src' = <<>>
    /\ pc' = "scan"
    /\ g_has_error' = NewUnitFlag(g_has_error)
    /\ ms' = MacroScanStart
    /\ am' = <<>>
    /\ st' = FirstPassStart
    /\ ob' = NoFile /\ ent' = NoFile /\ ext' = NoFile
    /\ raised' = {}
    /\ ran' = {"macro"}
    /\ earlier' = earlier \cup (IF g_has_error THEN raised ELSE {"none"})
    /\ UNCHANGED <<input, inside_macro_def, conv>>

Next ==
    \/ MacroScanReadLine
    \/ MacroScanEOF
    \/ WriteAmFile
    \/ FirstPassReadLine
    \/ FirstPassEOF
    \/ SecondPass
    \/ WriteOutputFiles

\* units about symbols
SpecSym == InitSym /\ [][Next]_vars

\* units of one declaration and one instruction
SpecInstr == InitInstr /\ [][Next]_vars

\* units about macros
SpecMacro == InitMacro /\ [][Next]_vars

\* units about size
SpecBig == InitBig /\ [][Next]_vars

\* units about matrix operands
InitMat == input = "mat" /\ InitUnit

SpecMat == InitMat /\ [][Next]_vars

\* units about a label on a declaration
InitLabel == input = "label" /\ InitUnit

SpecLabel == InitLabel /\ [][Next]_vars

\* units about the commas of an operand field
InitComma == input = "comma" /\ InitUnit

SpecComma == InitComma /\ [][Next]_vars

\* units about .data lists
InitData == input = "data" /\ InitUnit

SpecData == InitData /\ [][Next]_vars

\* units about the length of a line
InitLong == input = "long" /\ InitUnit

SpecLong == InitLong /\ [][Next]_vars

\* units about an operand r9
InitReg == input = "reg" /\ InitUnit

SpecReg == InitReg /\ [][Next]_vars

\* the units of one invocation, one after the other
InitUnits == input = "units" /\ InitUnit

NextUnits == Next \/ NextUnit

SpecUnits == InitUnits /\ [][NextUnits]_vars

\* calls of the two functions of convertToBase4.c
InitConv == input = "conv" /\ InitUnit

NextConv == Convert \/ Strip

SpecConv == InitConv /\ [][NextConv]_vars

\* ------------------------------------------------------------------------
\* Properties.  They read the unit from st.log, what each line of the .am
\* file was read as, and the output files.
\* ------------------------------------------------------------------------
SymNames == {NameX, NameY, NameA}

NoOutputs == ~ob.exists /\ ~ent.exists /\ ~ext.exists

\* the log entries of the lines that declare n with .extern, with .entry, and
\* that define n as a code or data label
ExternDecls(n) ==
    {i \in 1..Len(st.log) : st.log[i].cmd = DOT_EXTERN /\ ScanWord(st.log[i].arg).ok
                              /\ ScanWord(st.log[i].arg).tok = n}

EntryDecls(n) ==
    {i \in 1..Len(st.log) : st.log[i].cmd = DOT_ENTRY /\ ScanWord(st.log[i].arg).ok
                              /\ ScanWord(st.log[i].arg).tok = n}

Definitions(n) ==
    {i \in 1..Len(st.log) :
        /\ st.log[i].label = n
        /\ is_opcode(st.log[i].cmd) \/ st.log[i].cmd \in {DOT_DATA, DOT_STRING, DOT_MAT}}

\* the symbol an operand names as a direct label or a matrix base, <<>> for none
NamedSymbol(op) ==
    IF op = <<>> \/ op[1] = "#" \/ is_register(op) THEN <<>>
    ELSE Prefix(op, strcspn(op, {"["}))

\* the value of a base-4 word
RECURSIVE FromBase4(_)
FromBase4(w) ==
    IF w = <<>> THEN 0
    ELSE 4 * FromBase4(Prefix(w, Len(w) - 1))
            + (CHOOSE d \in 0..3 : Base4Digit(d) = w[Len(w)])

\* the name and the address of a line of the .ent or the .ext file
LineName(l) == Prefix(l, Len(l) - (BASE4_WORD_LENGTH + 1))
LineAddress(l) == FromBase4(Suffix(l, Len(l) - BASE4_WORD_LENGTH))

\* C1: when the error flag was set during the macro scan, the first pass or
\* the second pass, none of the .ob, .ent and .ext files is written; the second
\* pass is not run after a first pass that set the flag, and the first pass is
\* not run after a macro scan that set it.
C1_NoOutputAfterError ==
    /\ raised # {} => NoOutputs
    /\ "pass1" \in raised => "pass2" \notin ran
    /\ "macro" \in raised => "pass1" \notin ran

\* a unit that passed the macro scan and the first pass, failed in the second
\* pass and ended with no output file
C1_Witness == pc = "done" /\ raised = {"pass2"} /\ NoOutputs

\* C2: every instruction the first pass accepted has a length between 1 and 5,
\* and every instruction the second pass encoded to the end emitted that
\* length minus one operand words: the length check of the second pass never
\* fails.
C2_LengthMatchesWords ==
    \A i \in 1..Len(st.insts) :
        /\ st.insts[i].instruction_length >= 1
        /\ st.insts[i].instruction_length <= 5
        /\ st.insts[i].encoded =>
              /\ st.insts[i].num_operand_words = Len(st.insts[i].operand_words_base4)
              /\ st.insts[i].num_operand_words + 1 = st.insts[i].instruction_length

\* an encoded instruction of five words, and no error in the unit
C2_Witness ==
    /\ pc = "done"
    /\ ~g_has_error
    /\ \E i \in 1..Len(st.insts) :
          st.insts[i].encoded /\ st.insts[i].instruction_length = 5

\* C3: at the end of an error-free first pass every symbol of type data has
\* the address MEMORY_START + ICF + (DC at the line of its label), and that
\* address lies in MEMORY_START + ICF .. MEMORY_START + ICF + DCF - 1.
C3_DataSymbolAddresses ==
    pc = "pass2" =>
        \A k \in 1..Len(st.symTab) :
            st.symTab[k].type = SYMBOL_DATA =>
                LET a   == st.symTab[k].address
                    ICF == st.IC - MEMORY_START
                    DCF == st.DC
                IN  /\ \E i \in 1..Len(st.log) :
                          /\ st.log[i].label = st.symTab[k].name
                          /\ a = MEMORY_START + ICF + st.log[i].DC
                    /\ MEMORY_START + ICF <= a
                    /\ a < MEMORY_START + ICF + DCF

\* C4: a name declared with .entry and defined exactly once has, in the .ent
\* file, the final address of its definition: IC at the line for a code label,
\* MEMORY_START + ICF + DC at the line for a data label.
C4_EntryAddress ==
    (pc = "done" /\ ~g_has_error) =>
        \A n \in SymNames :
            (EntryDecls(n) # {} /\ Cardinality(Definitions(n)) = 1) =>
                LET d == st.log[CHOOSE i \in Definitions(n) : TRUE]
                    expected == IF is_opcode(d.cmd) THEN d.IC ELSE st.IC + d.DC
                IN  /\ ent.exists
                    /\ \E j \in 1..Len(ent.lines) : LineName(ent.lines[j]) = n
                    /\ \A j \in 1..Len(ent.lines) :
                          LineName(ent.lines[j]) = n =>
                              ent.lines[j] = n \o <<" ">> \o convertToBase4(expected)

\* C5: a name declared with .entry and never defined as a label leaves the
\* error flag set after the second pass, and no output file.
C5_UndefinedEntryFlagged ==
    pc = "done" =>
        \A n \in SymNames :
            (EntryDecls(n) # {} /\ Definitions(n) = {}) => g_has_error /\ NoOutputs

\* the operands of the instructions that name an external symbol, each with
\* the address of its reference word
ExternalSites ==
    LET IsExternal(n) ==
            \E k \in 1..Len(st.symTab) :
                st.symTab[k].name = n /\ st.symTab[k].type = SYMBOL_EXTERNAL
        Words(op) == IF strchr(op, "[") # 0 THEN 2 ELSE 1
        Site1(inst) ==
            IF inst.num_operands >= 1 /\ IsExternal(NamedSymbol(inst.operand1))
            THEN {[name |-> NamedSymbol(inst.operand1), address |-> inst.address + 1]}
            ELSE {}
        Site2(inst) ==
            IF inst.num_operands = 2 /\ IsExternal(NamedSymbol(inst.operand2))
            THEN {[name |-> NamedSymbol(inst.operand2),
                   address |-> inst.address + Words(inst.operand1) + 1]}
            ELSE {}
    IN  UNION {Site1(st.insts[i]) \cup Site2(st.insts[i]) : i \in 1..Len(st.insts)}

\* C6: in an error-free unit every external symbol has address 0, and the
\* lines of the .ext file are, one for one, the operands that name an external
\* symbol, each with the address of its reference word.
C6_ExternalReferences ==
    (pc = "done" /\ ~g_has_error) =>
        /\ \A k \in 1..Len(st.symTab) :
              st.symTab[k].type = SYMBOL_EXTERNAL => st.symTab[k].address = 0
        /\ {ext.lines[j] : j \in 1..Len(ext.lines)}
              = {s.name \o <<" ">> \o convertToBase4(s.address) : s \in ExternalSites}
        /\ Len(ext.lines) = Cardinality(ExternalSites)

\* an error-free unit whose .ext file has the two references of one instruction
C6_Witness ==
    /\ pc = "done"
    /\ ~g_has_error
    /\ ext.exists
    /\ Len(ext.lines) >= 2
    /\ \E i \in 1..Len(st.insts) :
          Cardinality({s \in ExternalSites : s.address > st.insts[i].address
                                              /\ s.address <= st.insts[i].address + 3}) = 2

\* C7: the .ext lines of one external symbol are in the order of its usages:
\* ascending reference addresses.
C7_ExtLinesInUsageOrder ==
    pc = "done" =>
        \A i, j \in 1..Len(ext.lines) :
            (i < j /\ LineName(ext.lines[i]) = LineName(ext.lines[j])) =>
                LineAddress(ext.lines[i]) < LineAddress(ext.lines[j])

\* C8: a name defined as a code or data label on two lines sets the error
\* flag, whatever .entry declarations of the name lie around the two lines.
C8_DuplicateDefinitionFlagged ==
    \A n \in SymNames : Cardinality(Definitions(n)) >= 2 => g_has_error

C10_UndefinedOperandFlagged ==
    pc = "done" =>
        \A i \in 1..Len(st.insts) : \A n \in SymNames :
            ( /\ n \in {NamedSymbol(st.insts[i].operand1), NamedSymbol(st.insts[i].operand2)}
              /\ Definitions(n) = {}
              /\ ExternDecls(n) = {} )
            => g_has_error /\ NoOutputs

\* the operands of an instruction line, as the text after the opcode gives
\* them: none, one, or two around a comma
LineOperands(arg) ==
    IF arg = <<>> THEN <<>>
    ELSE IF strchr(arg, ",") = 0 THEN <<arg>>
    ELSE <<Prefix(arg, strchr(arg, ",") - 1), skip_whitespace(Suffix(arg, strchr(arg, ",")))>>

\* NAME[rX][rY] with X and Y in 0..7
WellFormedMatrix(op) ==
    LET ln == strcspn(op, {"["})
    IN  /\ ln > 0
        /\ Len(op) = ln + 8
        /\ SubSeq(op, ln + 1, ln + 2) = <<"[", "r">>
        /\ op[ln + 3] \in {"0", "1", "2", "3", "4", "5", "6", "7"}
        /\ SubSeq(op, ln + 4, ln + 6) = <<"]", "[", "r">>
        /\ op[ln + 7] \in {"0", "1", "2", "3", "4", "5", "6", "7"}
        /\ op[ln + 8] = "]"

\* the lexical addressing mode of an operand
LexicalMode(op) ==
    IF op[1] = "#" THEN "imm"
    ELSE IF Len(op) = 2 /\ op[1] = "r" /\ op[2] \in {"0", "1", "2", "3", "4", "5", "6", "7"}
         THEN "reg"
    ELSE IF strchr(op, "[") # 0 THEN "mat"
    ELSE "dir"

\* the table of the opcodes: arity, source modes, destination modes
OpcodeTable(opcode) ==
    LET all == {"imm", "dir", "mat", "reg"}
    IN  IF opcode \in {Opcodes[1], Opcodes[3], Opcodes[4]}
            THEN [arity |-> 2, src |-> all, dest |-> {"dir", "mat", "reg"}]
        ELSE IF opcode = Opcodes[2] THEN [arity |-> 2, src |-> all, dest |-> all]
        ELSE IF opcode = LEA
            THEN [arity |-> 2, src |-> {"dir", "mat"}, dest |-> {"dir", "mat", "reg"}]
        ELSE IF opcode \in {Opcodes[5], Opcodes[6], Opcodes[8], Opcodes[9], Opcodes[12]}
            THEN [arity |-> 1, src |-> {}, dest |-> {"dir", "mat", "reg"}]
        ELSE IF opcode \in {Opcodes[10], Opcodes[11], Opcodes[14]}
            THEN [arity |-> 1, src |-> {}, dest |-> {"dir", "mat"}]
        ELSE IF opcode = Opcodes[13] THEN [arity |-> 1, src |-> {}, dest |-> all]
        ELSE [arity |-> 0, src |-> {}, dest |-> {}]

\* the instruction line is one that pass 1 has to accept
Acceptable(opcode, ops) ==
    /\ is_opcode(opcode)
    /\ Len(ops) = OpcodeTable(opcode).arity
    /\ \A k \in 1..Len(ops) : LexicalMode(ops[k]) = "mat" => WellFormedMatrix(ops[k])
    /\ Len(ops) = 1 => LexicalMode(ops[1]) \in OpcodeTable(opcode).dest
    /\ Len(ops) = 2 => /\ LexicalMode(ops[1]) \in OpcodeTable(opcode).src
                       /\ LexicalMode(ops[2]) \in OpcodeTable(opcode).dest

\* the instruction records of the line of log entry i
RecordsOf(i) ==
    {k \in 1..Len(st.insts) : st.insts[k].original_line_number = st.log[i].line}

\* C11: pass 1 appends one instruction record for an instruction line, at the
\* IC of the line, and advances IC by its length, if and only if the opcode is
\* one of the 16 mnemonics, the number of operands is the opcode's arity, every
\* matrix operand is well formed and every operand's lexical mode is allowed
\* for its slot, a single operand being checked as the destination; it leaves
\* the instruction list and IC as they were otherwise.
C11_InstructionAccepted ==
    \A i \in 1..Len(st.log) :
        (st.log[i].cmd[1] # "." /\ i = Len(st.log)) =>
            IF Acceptable(st.log[i].cmd, LineOperands(st.log[i].arg))
            THEN /\ Cardinality(RecordsOf(i)) = 1
                 /\ \A k \in RecordsOf(i) :
                       /\ st.insts[k].address = st.log[i].IC
                       /\ st.IC = st.log[i].IC + st.insts[k].instruction_length
            ELSE RecordsOf(i) = {} /\ st.IC = st.log[i].IC

\* C12: pass 1 checks an instruction line that is erroneous on its own (unknown
\* opcode, wrong operand count, illegal addressing mode) and gives its
\* diagnostic also when an earlier line has set the error flag, with or
\* without a label on the line: the line is never left unread.  The lines
\* looked at are those whose label, if any, is on no earlier line.
C12_EveryLineChecked ==
    \A i \in 1..Len(st.log) :
        ( /\ st.log[i].cmd[1] # "."
          /\ ~Acceptable(st.log[i].cmd, LineOperands(st.log[i].arg))
          /\ \A j \in 1..(i - 1) : st.log[j].label # st.log[i].label )
            => ~st.log[i].skipped

\* the text after the first word of a line
AfterFirstWord(l) ==
    skip_whitespace(Suffix(skip_whitespace(l), ScanWord(skip_whitespace(l)).n))

FirstWord(l) == IF ScanWord(skip_whitespace(l)).ok THEN ScanWord(skip_whitespace(l)).tok ELSE <<>>

\* the text is one name that a macro may have
MacroNameAlone(t) ==
    /\ ScanWord(t).ok
    /\ ScanWord(t).tok = t
    /\ is_valid_label(t)
    /\ ~is_reserved_macro_name(t)

\* the two-state machine of the definitions, from line i of the source on:
\* inside is its state, names the macros defined so far, longest the length
\* of the longest line that is accepted
RECURSIVE WellFormedFrom(_, _, _, _, _)
WellFormedFrom(source, i, inside, names, longest) ==
    IF i > Len(source) THEN ~inside
    ELSE IF Len(source[i]) > longest THEN FALSE
    ELSE IF FirstWord(source[i]) = MCRO THEN
        /\ ~inside
        /\ MacroNameAlone(AfterFirstWord(source[i]))
        /\ AfterFirstWord(source[i]) \notin names
        /\ WellFormedFrom(source, i + 1, TRUE, names \cup {AfterFirstWord(source[i])}, longest)
    ELSE IF FirstWord(source[i]) = MCROEND THEN
        /\ inside
        /\ AfterFirstWord(source[i]) = <<>>
        /\ WellFormedFrom(source, i + 1, FALSE, names, longest)
    ELSE WellFormedFrom(source, i + 1, inside, names, longest)

\* the longest line of a source file: 80 characters
MaxSourceLine == MAX_LINE_LENGTH - 1

\* C13: the macro scan leaves the error flag clear if and only if the lines
\* are well formed: every mcro line is outside a definition and has exactly
\* one valid, non-reserved and new name and nothing else, every mcroend line
\* is inside a definition and has nothing after it, no line has more than 80
\* characters, and the end of the file is outside a definition.
C13_MacroScanFlag ==
    pc # "scan" => (("macro" \notin raised) <=> WellFormedFrom(src, 1, FALSE, {}, MaxSourceLine))

\* a line that is neither blank nor a comment
IsStatement(l) == skip_whitespace(l) # <<>> /\ skip_whitespace(l)[1] # ";"

\* line i of the source is the mcro line, a body line or the mcroend line of
\* a definition
InDefinition(source, i) ==
    \/ FirstWord(source[i]) \in {MCRO, MCROEND}
    \/ \E a \in 1..(i - 1) :
          /\ FirstWord(source[a]) = MCRO
          /\ \A k \in (a + 1)..i : FirstWord(source[k]) # MCROEND

\* the body of the definition that opens at line a: the statements up to its
\* mcroend line
BodyAt(source, a) ==
    LET z == CHOOSE j \in (a + 1)..Len(source) :
                /\ FirstWord(source[j]) = MCROEND
                /\ \A k \in (a + 1)..(j - 1) : FirstWord(source[k]) # MCROEND
    IN  SelectSeq(SubSeq(source, a + 1, z - 1), IsStatement)

\* the lines that open a definition of the macro called name
DefinitionsOf(source, name) ==
    {a \in 1..Len(source) :
        FirstWord(source[a]) = MCRO /\ AfterFirstWord(source[a]) = name}

\* the statement of a line: what follows its label and colon, if it has one
AfterLabel(l) ==
    IF strchr(skip_whitespace(l), ":") # 0
    THEN skip_whitespace(Suffix(skip_whitespace(l), strchr(skip_whitespace(l), ":")))
    ELSE skip_whitespace(l)

\* the label, the colon and the white space in front of the statement
LabelPrefix(l) ==
    IF strchr(skip_whitespace(l), ":") # 0 THEN Prefix(l, Len(l) - Len(AfterLabel(l))) ELSE <<>>

\* what a call with the prefix pre of the macro with the lines body becomes
CallExpansion(pre, body) ==
    IF body = <<>> THEN (IF pre = <<>> THEN <<>> ELSE <<pre>>)
    ELSE <<pre \o body[1]>> \o Tail(body)

\* the lines of the .am file that line i of the source has to give
ExpandedLine(source, i) ==
    IF InDefinition(source, i) THEN <<>>
    ELSE IF IsStatement(source[i]) /\ DefinitionsOf(source, FirstWord(AfterLabel(source[i]))) # {}
    THEN CallExpansion(LabelPrefix(source[i]),
            BodyAt(source, CHOOSE a \in DefinitionsOf(source, FirstWord(AfterLabel(source[i]))) : TRUE))
    ELSE <<source[i]>>

\* C14: when the definitions of the unit are well formed, the .am file holds
\* no mcro line, mcroend line or body line at the place of a definition; a
\* line whose first word, or first word after its label, is the name of a
\* macro is replaced by the stored lines of the macro in their order, the
\* label of the call being kept in front of the first of them only, also when
\* the macro has no line; every other line is there unchanged, in the order
\* of the source.
C14_ExpandedLines ==
    "pass1" \in ran => am = Flatten([i \in 1..Len(src) |-> ExpandedLine(src, i)])

\* the base-4 numeral of n, without leading a's
RECURSIVE Numeral(_)
Numeral(n) ==
    IF n < 4 THEN <<Base4Digit(n)>> ELSE Numeral(n \div 4) \o <<Base4Digit(n % 4)>>

\* the sum of the lengths of the instructions from the i-th on
RECURSIVE LengthsFrom(_, _)
LengthsFrom(insts, i) ==
    IF i > Len(insts) THEN 0
    ELSE insts[i].instruction_length + LengthsFrom(insts, i + 1)

\* the words the second pass gave to the instructions from the i-th on
RECURSIVE WordsFrom(_, _)
WordsFrom(insts, i) ==
    IF i > Len(insts) THEN 0
    ELSE 1 + Len(insts[i].operand_words_base4) + WordsFrom(insts, i + 1)

\* C15: the header of the .ob file of an error-free unit is the number of
\* instruction words (the final IC minus MEMORY_START, the sum of the lengths
\* of the instructions), a space, and the number of data words (the final
\* DC), both in base 4 without leading a's; the lines after the header are
\* that many instruction words and that many data words.
C15_ObHeader ==
    (pc = "done" /\ ~g_has_error) =>
        /\ ob.exists
        /\ st.IC - MEMORY_START = LengthsFrom(st.insts, 1)
        /\ st.IC - MEMORY_START = WordsFrom(st.insts, 1)
        /\ st.DC = Len(st.data)
        /\ ob.lines[1] = Numeral(st.IC - MEMORY_START) \o <<" ">> \o Numeral(st.DC)
        /\ Len(ob.lines) = 1 + (st.IC - MEMORY_START) + st.DC

\* the address and the word of a line of the .ob file
ObAddress(l) == FromBase4(Prefix(l, BASE4_WORD_LENGTH))
ObWord(l) == Suffix(l, BASE4_WORD_LENGTH + 1)

\* the largest unit that fits the addresses MEMORY_START .. 1023
MemoryWords == 1024 - MEMORY_START

\* C16: in the .ob file of an error-free unit of at most 924 words, the lines
\* after the header have the addresses MEMORY_START, MEMORY_START + 1, ... in
\* this order; they are, for each instruction in source order, its opcode word
\* at the address of the instruction and its operand words at the next
\* addresses, then the data words in source order, the word of DC offset d at
\* MEMORY_START + ICF + d.
C16_ObLines ==
    (pc = "done" /\ ~g_has_error /\ (st.IC - MEMORY_START) + st.DC <= MemoryWords) =>
        /\ ob.exists
        /\ Len(ob.lines) = 1 + (st.IC - MEMORY_START) + st.DC
        /\ \A k \in 2..Len(ob.lines) :
              /\ Len(ob.lines[k]) = 2 * BASE4_WORD_LENGTH + 1
              /\ ob.lines[k][BASE4_WORD_LENGTH + 1] = "\t"
              /\ ObAddress(ob.lines[k]) = MEMORY_START + k - 2
        /\ \A i, j \in 1..Len(st.insts) :
              i < j => st.insts[i].original_line_number < st.insts[j].original_line_number
        /\ \A i \in 1..Len(st.insts) :
              /\ st.insts[i].address = MEMORY_START + LengthsFrom(st.insts, 1)
                                            - LengthsFrom(st.insts, i)
              /\ ObWord(ob.lines[st.insts[i].address - MEMORY_START + 2])
                    = st.insts[i].machine_code_base4
              /\ \A w \in 1..Len(st.insts[i].operand_words_base4) :
                    ObWord(ob.lines[st.insts[i].address - MEMORY_START + 2 + w])
                        = st.insts[i].operand_words_base4[w]
        /\ \A d \in 1..Len(st.data) :
              /\ st.data[d].address = d - 1
              /\ ObAddress(ob.lines[1 + (st.IC - MEMORY_START) + d])
                    = MEMORY_START + (st.IC - MEMORY_START) + st.data[d].address
              /\ FromBase4(ObWord(ob.lines[1 + (st.IC - MEMORY_START) + d]))
                    = st.data[d].value % 1024
        /\ \A a, b \in 1..Len(st.log) :
              ( /\ a < b
                /\ st.log[a].cmd = DOT_DATA /\ st.log[b].cmd = DOT_DATA
                /\ st.log[a].DC < st.DC /\ st.log[b].DC < st.DC
                /\ st.log[a].DC # st.log[b].DC )
              => /\ st.log[a].DC < st.log[b].DC
                 /\ st.data[st.log[a].DC + 1].value = atoi(st.log[a].arg)
                 /\ st.data[st.log[b].DC + 1].value = atoi(st.log[b].arg)

\* an error-free unit of three lines: an instruction of several words between
\* two .data lines of different values
C16_Witness ==
    /\ pc = "done"
    /\ ~g_has_error
    /\ ob.exists
    /\ Len(st.insts) >= 1
    /\ Len(st.insts[1].operand_words_base4) >= 1
    /\ Len(st.data) >= 2
    /\ st.data[1].value # st.data[2].value
    /\ st.log[1].cmd = DOT_DATA
    /\ is_opcode(st.log[2].cmd)

\* a 10-bit word read as a signed number
SignExtend(v) == IF v >= 512 THEN v - 1024 ELSE v

\* C17: for every n in -512 .. 511, convertToBase4(n) has exactly 5 characters
\* among a, b, c, d, and its value (a = 0, b = 1, c = 2, d = 3, most
\* significant first) sign-extended from 10 bits is n; stripLeadingA of it is
\* not empty, starts with 'a' only when it is "a", and has the same value.
C17_Base4RoundTrip ==
    (conv.step # "idle" /\ conv.value \in -512..511) =>
        /\ Len(conv.word) = 5
        /\ \A i \in 1..Len(conv.word) : conv.word[i] \in {"a", "b", "c", "d"}
        /\ SignExtend(FromBase4(conv.word)) = conv.value
        /\ conv.step = "stripped" =>
              /\ conv.stripped # <<>>
              /\ conv.stripped[1] = "a" => conv.stripped = <<"a">>
              /\ FromBase4(conv.stripped) = FromBase4(conv.word)
              /\ FromBase4(conv.stripped) >= 0

\* the smallest value, converted and stripped: caaaa
C17_Witness ==
    /\ conv.step = "stripped"
    /\ conv.value = -512
    /\ conv.stripped = <<"c", "a", "a", "a", "a">>

\* C18: in an error-free unit every symbol of type code has the address of
\* the opcode word of the instruction on the line of its label, an address
\* from MEMORY_START to MEMORY_START + ICF - 1; and the address of every
\* instruction is MEMORY_START plus the sum of the lengths of the instructions
\* before it.
C18_CodeSymbolAddresses ==
    (pc \in {"pass2", "write", "done"} /\ ~g_has_error) =>
        /\ \A k \in 1..Len(st.symTab) :
              st.symTab[k].type = SYMBOL_CODE =>
                  /\ \E i \in 1..Len(st.insts) : \E l \in 1..Len(st.log) :
                        /\ st.log[l].label = st.symTab[k].name
                        /\ st.log[l].line = st.insts[i].original_line_number
                        /\ st.insts[i].address = st.symTab[k].address
                  /\ MEMORY_START <= st.symTab[k].address
                  /\ st.symTab[k].address < st.IC
        /\ \A i \in 1..Len(st.insts) :
              st.insts[i].address = MEMORY_START + LengthsFrom(st.insts, 1)
                                        - LengthsFrom(st.insts, i)
        /\ st.IC = MEMORY_START + LengthsFrom(st.insts, 1)

\* an error-free unit whose code symbol follows instructions of several words
C18_Witness ==
    /\ pc = "done"
    /\ ~g_has_error
    /\ \E k \in 1..Len(st.symTab) :
          /\ st.symTab[k].type = SYMBOL_CODE
          /\ st.symTab[k].address >= MEMORY_START + 4
          /\ st.symTab[k].address = st.IC - 1

ModeDigit(op) ==
    IF LexicalMode(op) = "imm" THEN "a"
    ELSE IF LexicalMode(op) = "dir" THEN "b"
    ELSE IF LexicalMode(op) = "mat" THEN "c"
    ELSE "d"

\* the opcode word an instruction has to get
OpcodeWord(inst) ==
    << Base4Digit(OpcodeNum(inst.opcode) \div 4), Base4Digit(OpcodeNum(inst.opcode) % 4),
       IF inst.num_operands = 2 THEN ModeDigit(inst.operand1) ELSE "a",
       IF inst.num_operands = 2 THEN ModeDigit(inst.operand2)
       ELSE IF inst.num_operands = 1 THEN ModeDigit(inst.operand1)
       ELSE "a",
       "a" >>

\* C20: the opcode word of every encoded instruction is the two base-4 digits
\* of the opcode, the digit of the source mode, the digit of the destination
\* mode and 'a'; the mode of the operand of a single-operand instruction is
\* in the destination position, the fourth, and the third is 'a'; both are
\* 'a' for an instruction without operand.
C20_OpcodeWord ==
    \A i \in 1..Len(st.insts) :
        st.insts[i].encoded => st.insts[i].machine_code_base4 = OpcodeWord(st.insts[i])

\* the number of the register operand rN
RegisterNumber(op) == DigitVal(op[2])

\* C21: a register operand that shares its word with no other register is
\* encoded with its number in bits 9-6 when it is the source operand and in
\* bits 5-2 when it is the destination operand, all other bits zero; the
\* only operand of a single-operand instruction is the destination, its
\* number is in bits 5-2.
C21_RegisterWord ==
    \A i \in 1..Len(st.insts) :
        st.insts[i].encoded =>
            /\ ( /\ st.insts[i].num_operands = 1
                 /\ LexicalMode(st.insts[i].operand1) = "reg" )
               => FromBase4(st.insts[i].operand_words_base4[1])
                      = 4 * RegisterNumber(st.insts[i].operand1)
            /\ ( /\ st.insts[i].num_operands = 2
                 /\ LexicalMode(st.insts[i].operand1) = "reg"
                 /\ LexicalMode(st.insts[i].operand2) # "reg" )
               => FromBase4(st.insts[i].operand_words_base4[1])
                      = 64 * RegisterNumber(st.insts[i].operand1)
            /\ ( /\ st.insts[i].num_operands = 2
                 /\ LexicalMode(st.insts[i].operand1) # "reg"
                 /\ LexicalMode(st.insts[i].operand2) = "reg" )
               => FromBase4(st.insts[i].operand_words_base4[st.insts[i].num_operand_words])
                      = 4 * RegisterNumber(st.insts[i].operand2)

\* the number of words of an operand
WordsOf(op) == IF LexicalMode(op) = "mat" THEN 2 ELSE 1

\* the references of instruction i: the symbol of the table that a direct
\* label or a matrix base names, with the operand word that refers to it
ReferencesOf(i) ==
    {[sym |-> k, word |-> st.insts[i].operand_words_base4[1]] :
        k \in {k \in 1..Len(st.symTab) :
                  /\ st.insts[i].num_operands >= 1
                  /\ st.symTab[k].name = NamedSymbol(st.insts[i].operand1)}}
    \cup
    {[sym |-> k,
      word |-> st.insts[i].operand_words_base4[WordsOf(st.insts[i].operand1) + 1]] :
        k \in {k \in 1..Len(st.symTab) :
                  /\ st.insts[i].num_operands = 2
                  /\ st.symTab[k].name = NamedSymbol(st.insts[i].operand2)}}

\* the ARE code of a reference to the symbol at index k
AreCode(k) == IF st.symTab[k].type = SYMBOL_EXTERNAL THEN 1 ELSE 2

\* C22: the reference word of a direct-label operand or a matrix base
\* resolved to a symbol with address A is (4*A + ARE) mod 1024, with ARE 1
\* for an external symbol and 2 otherwise: A is in the upper 8 bits.
C22_ReferenceWord ==
    \A i \in 1..Len(st.insts) :
        st.insts[i].encoded =>
            \A r \in ReferencesOf(i) :
                FromBase4(r.word) = (4 * st.symTab[r.sym].address + AreCode(r.sym)) % 1024

\* the immediate operands of instruction i whose value is in [-128, 127]:
\* the value v with the operand word
ImmediatesOf(i) ==
    {[v |-> atoi(Suffix(st.insts[i].operand1, 1)),
      word |-> st.insts[i].operand_words_base4[1]] :
        k \in {k \in {1} : /\ st.insts[i].num_operands >= 1
                            /\ LexicalMode(st.insts[i].operand1) = "imm"
                            /\ atoi(Suffix(st.insts[i].operand1, 1)) \in (0 - 128)..127}}
    \cup
    {[v |-> atoi(Suffix(st.insts[i].operand2, 1)),
      word |-> st.insts[i].operand_words_base4[WordsOf(st.insts[i].operand1) + 1]] :
        k \in {k \in {2} : /\ st.insts[i].num_operands = 2
                            /\ LexicalMode(st.insts[i].operand2) = "imm"
                            /\ atoi(Suffix(st.insts[i].operand2, 1)) \in (0 - 128)..127}}

\* C23: the word of an immediate operand #v, v in [-128, 127], carries v in
\* two's complement in its upper four base-4 digits, followed by the ARE digit
\* 'a', in the source slot and in the destination slot: v is recoverable from
\* the word, two different values never have the same word.
C23_ImmediateWord ==
    \A i \in 1..Len(st.insts) :
        st.insts[i].encoded =>
            \A r \in ImmediatesOf(i) : FromBase4(r.word) = 4 * (r.v % 256)

\* the matrix operands of instruction i: the operand with its second word
MatricesOf(i) ==
    {[op |-> st.insts[i].operand1, word |-> st.insts[i].operand_words_base4[2]] :
        k \in {k \in {1} : /\ st.insts[i].num_operands >= 1
                            /\ WellFormedMatrix(st.insts[i].operand1)}}
    \cup
    {[op |-> st.insts[i].operand2,
      word |-> st.insts[i].operand_words_base4[WordsOf(st.insts[i].operand1) + 2]] :
        k \in {k \in {2} : /\ st.insts[i].num_operands = 2
                            /\ WellFormedMatrix(st.insts[i].operand2)}}

\* the row and the column register of NAME[rX][rY]
RowRegister(op) == DigitVal(op[strcspn(op, {"["}) + 3])
ColumnRegister(op) == DigitVal(op[strcspn(op, {"["}) + 7])

\* C24: the second word of a matrix operand NAME[rX][rY], X and Y in 0..7, is
\* 64*X + 4*Y: the row register in bits 9-6, the column register in bits 5-2,
\* ARE bits 00; X and Y are recoverable from it for all 64 pairs.
C24_MatrixRegistersWord ==
    \A i \in 1..Len(st.insts) :
        st.insts[i].encoded =>
            \A r \in MatricesOf(i) :
                FromBase4(r.word) = 64 * RowRegister(r.op) + 4 * ColumnRegister(r.op)

\* the log entry i is a .extern or .entry line with a label
LabelledDeclaration(i) ==
    st.log[i].cmd \in {DOT_EXTERN, DOT_ENTRY} /\ st.log[i].label # <<>>

\* the name n is on no line of the log but as the label of a declaration
OnlyDeclarationLabel(n) ==
    Definitions(n) = {} /\ ExternDecls(n) = {} /\ EntryDecls(n) = {}

\* pass 1 has just read the line of the last log entry, with the flag clear
\* before it
JustRead(i) ==
    /\ pc = "pass1"
    /\ i = Len(st.log)
    /\ st.log[i].line = st.lineNumber
    /\ ~st.log[i].errBefore

\* C25: a label on a .extern or .entry line has no effect: it adds no symbol
\* to the table; the line does not set the error flag, also when the label is
\* a name already in the table (the declared name being new); and a later
\* definition of the same name as a code or data label is no error.
C25_DeclarationLabelIgnored ==
    \A i \in 1..Len(st.log) :
        /\ (LabelledDeclaration(i) /\ OnlyDeclarationLabel(st.log[i].label))
               => \A k \in 1..Len(st.symTab) : st.symTab[k].name # st.log[i].label
        /\ ( /\ JustRead(i)
             /\ LabelledDeclaration(i)
             /\ \A j \in 1..(i - 1) :
                    st.log[j].label # ScanWord(st.log[i].arg).tok
                        /\ st.log[j].cmd \notin {DOT_EXTERN, DOT_ENTRY} )
               => ~st.err
        /\ ( /\ JustRead(i)
             /\ st.log[i].label # <<>>
             /\ Definitions(st.log[i].label) = {i}
             /\ ExternDecls(st.log[i].label) = {}
             /\ EntryDecls(st.log[i].label) = {}
             /\ Acceptable(st.log[i].cmd, LineOperands(st.log[i].arg))
                    \/ st.log[i].cmd = DOT_DATA )
               => ~st.err

\* the commas of an operand field
Commas(arg) == {k \in 1..Len(arg) : arg[k] = ","}

LeadingComma(arg) == arg # <<>> /\ arg[1] = ","

TrailingComma(arg) ==
    \E k \in Commas(arg) : \A j \in (k + 1)..Len(arg) : isspace(arg[j])

ConsecutiveCommas(arg) ==
    \E k \in Commas(arg) : \E m \in Commas(arg) :
        k < m /\ \A j \in (k + 1)..(m - 1) : isspace(arg[j])

MoreThanTwoOperands(arg) == Cardinality(Commas(arg)) >= 2

\* C26: an instruction line whose operand field has a leading comma, a
\* trailing comma, two or more consecutive commas, or more than two operands
\* sets the error flag and appends no instruction record.
C26_CommasRejected ==
    \A i \in 1..Len(st.log) :
        ( /\ is_opcode(st.log[i].cmd)
          /\ \/ LeadingComma(st.log[i].arg)
             \/ TrailingComma(st.log[i].arg)
             \/ ConsecutiveCommas(st.log[i].arg)
             \/ MoreThanTwoOperands(st.log[i].arg) )
        => (st.err /\ RecordsOf(i) = {})

\* the items of a parameter list: the texts between its commas
RECURSIVE Items(_)
Items(list) ==
    IF strchr(list, ",") = 0 THEN <<trim_whitespace(list)>>
    ELSE <<trim_whitespace(Prefix(list, strchr(list, ",") - 1))>>
             \o Items(Suffix(list, strchr(list, ",")))

\* the item is a decimal integer: digits after an optional sign
DecimalInteger(item) ==
    /\ Len(item) > SignRun(item)
    /\ \A k \in (SignRun(item) + 1)..Len(item) : isdigit(item[k])

\* the value of a decimal integer
ItemValue(item) ==
    IF item[1] = "-" THEN 0 - DecVal(Tail(item), 0)
    ELSE DecVal(Suffix(item, SignRun(item)), 0)

\* a list of decimal integers in [-512, 511], one between every two commas
WellFormedData(list) ==
    \A k \in 1..Len(Items(list)) :
        /\ DecimalInteger(Items(list)[k])
        /\ ItemValue(Items(list)[k]) \in (0 - 512)..511

\* C27: a .data line sets the error flag whenever its parameter list is
\* empty, has a leading, a trailing or a doubled comma, or has an item that is
\* not a decimal integer in [-512, 511]; otherwise it appends one data word
\* per value, in order, at consecutive DC offsets, and DC grows by the number
\* of values.
C27_DataList ==
    \A i \in 1..Len(st.log) :
        st.log[i].cmd = DOT_DATA =>
            IF ~WellFormedData(st.log[i].arg) THEN st.err
            ELSE (pc = "pass1" /\ i = Len(st.log) /\ ~st.log[i].skipped) =>
                    /\ st.DC = st.log[i].DC + Len(Items(st.log[i].arg))
                    /\ Len(st.data) >= Len(Items(st.log[i].arg))
                    /\ \A k \in 1..Len(Items(st.log[i].arg)) :
                          st.data[Len(Items(st.log[i].arg)) + 1 - k]
                              = [address |-> st.log[i].DC + k - 1,
                                 value |-> ItemValue(Items(st.log[i].arg)[k])]

\* C28: a unit with a source line of more than 80 characters before its line
\* terminator ends with the error flag set and without output; a line of at
\* most 80 characters is not rejected for its length: a unit of comment lines
\* of at most 80 characters and of stop lines assembles.
C28_LineLengthBoundary ==
    pc = "done" =>
        /\ (\E k \in 1..Len(src) : Len(src[k]) > MaxSourceLine)
               => (g_has_error /\ NoOutputs)
        /\ (\A k \in 1..Len(src) :
                Len(src[k]) <= MaxSourceLine /\ (src[k] = STOP \/ src[k][1] = ";"))
               => (~g_has_error /\ ob.exists)

\* C29: an operand r9 is rejected as an invalid register: a unit with the
\* line 'mov r1, r9' ends with the error flag set and without output files,
\* whatever labels it defines.
C29_InvalidRegisterRejected ==
    (pc = "done" /\ \E k \in 1..Len(src) : src[k] = MovR1R9)
        => (g_has_error /\ NoOutputs)

\* C30: a unit whose instruction and data words do not fit the addresses
\* MEMORY_START .. 1023 ends with the error flag set and without output, so
\* that no address of the .ob file was reduced modulo 2^10: no two lines of
\* one .ob file have the same address.
C30_NoWrappedAddress ==
    pc = "done" =>
        /\ (st.IC - MEMORY_START) + st.DC > MemoryWords => (g_has_error /\ NoOutputs)
        /\ ob.exists =>
              Cardinality({Prefix(ob.lines[k], BASE4_WORD_LENGTH) : k \in 2..Len(ob.lines)})
                  = Len(ob.lines) - 1

====
